---- MODULE Spec2Model ----
(***************************************************************************)
(* Model of the knowledge-graph exploration core of sources_system:        *)
(*   - the race-safe classification lanes of UploadWizard.jsx,             *)
(*   - the bootstrap job poller of the RAG workspace page,                 *)
(*   - the graph filter pipeline of the RAG workspace page,                *)
(*   - the per-frame label budget of RagGraph2DCanvas.jsx.                 *)
(* Every subsystem has its own specification over the shared variables.    *)
(***************************************************************************)
EXTENDS Integers, Sequences, FiniteSets, TLC

\* ------------------------------------------------------------------------
\* Bounds of the classification model
\* ------------------------------------------------------------------------
\* Classification requests issued in one behaviour, both lanes together.
MaxRequests == 4

Volumes == {"v1", "v2"}
Chapters == {"c1", "c2"}
Sections == {"s1"}

\* ------------------------------------------------------------------------
\* State of UploadWizard (classification lanes)
\* ------------------------------------------------------------------------
VARIABLES
  step,                 \* wizard step 1..3
  uploadFile,           \* 0 = no file, else the identity of the chosen File
  filesChosen,          \* number of File objects the user has produced
  form,                 \* [volume_code, chapter_id, section_id]
  autoResult,           \* global lane's current value
  scopedAutoResult,     \* scoped lane's current value
  lastGoodResult,
  lastGoodResultRef,    \* ref mirror of lastGoodResult, synced after render
  displaySource,
  classifyError,
  isClassifying,
  isScopedClassifying,
  autoFilledChapter,
  globalReqSeqRef,
  scopedReqSeqRef,
  inflight,             \* classification requests awaiting their response
  newestDone,           \* per lane: the newest request answered so far,
                        \* its data and the kind of its outcome
  lateDone              \* per lane: token of the last response that arrived
                        \* after the response to a newer request (0 = none)

wizVars == <<step, uploadFile, filesChosen, form, autoResult, scopedAutoResult,
             lastGoodResult, lastGoodResultRef, displaySource, classifyError,
             isClassifying, isScopedClassifying, autoFilledChapter,
             globalReqSeqRef, scopedReqSeqRef, inflight, newestDone, lateDone>>

\* State of the RAG workspace page (bootstrap job poller)
VARIABLES
  mounted,              \* the page is mounted
  activeWorkspaceId,    \* "" or the id of the active workspace
  bootstrapPollerRef,   \* 0 = null, else the job whose interval timer it holds
  bootstrapJob,         \* displayed job state
  submits,              \* quickBootstrapRag calls awaiting their response
  jobsSubmitted,        \* number of quickBootstrapRag calls made
  serverStatus,         \* per job: newest status the server has reported
                        \* ("none" = no job)
  polls,                \* getRagBootstrapJob calls awaiting their response
  pollCount,            \* per job: number of poll requests issued
  graphLoads,           \* loadWorkspaceData calls of the poller awaiting the graph
  globalMessage,        \* last message handed to setGlobalMessage
  firstTerminalPoll,    \* per job: index of the poll that first observed a
                        \* terminal status (0 = none yet)
  timers,               \* the jobs whose setInterval timer has not been cleared
  lastStarted,          \* the job startBootstrapPolling was last called for
                        \* (0 = none yet)
  lastEvent,            \* history: what the last step of the poller was and
                        \* the job it belongs to
  pollFailures,         \* history: the jobs a poll request of which was rejected
  terminalCount         \* history, per job: how often the terminal branch of
                        \* pollBootstrapJob has run

pollVars == <<mounted, activeWorkspaceId, bootstrapPollerRef, bootstrapJob,
              submits, jobsSubmitted, serverStatus, polls, pollCount, graphLoads, globalMessage,
              firstTerminalPoll, timers, lastStarted, lastEvent, pollFailures,
              terminalCount>>

\* State of the RAG workspace page (graph snapshot and live filters)
VARIABLES
  graph,                \* the snapshot: nodes (ordered) and edges
  nodeTypeFilter,       \* the four filter maps: key -> enabled flag
  edgeTypeFilter,
  difficultyFilter,
  formatFilter,
  selectedNodeId,       \* id of the selected node (0 = "")
  mergeHistory          \* history of the edge-type merges since the last
                        \* user action: an edge type the last merge dropped
                        \* while it was switched off (phase "dropped"), or
                        \* that the merge before it dropped so and the last
                        \* merge inserted again (phase "reinserted")

filterVars == <<graph, nodeTypeFilter, edgeTypeFilter, difficultyFilter,
                formatFilter, selectedNodeId, mergeHistory>>

\* State of the 2D canvas (RagGraph2DCanvas) and of the frame being painted
VARIABLES
  canvasProps,          \* props: graph (number of nodes handed to the canvas),
                        \* selectedNodeId, highlightNodes
  nodeScale,            \* useState nodeScale, in tenths
  importantSizeThreshold, \* the memo of lines 123-132, in hundredths
  labelBudgetRef,       \* { frameKey, count }
  frame,                \* the paint pass: globalScale (thousandths) and the
                        \* node nodeCanvasObject is called on next (0 = pass over)
  drawn                 \* labels painted (ctx.fillText) in the current pass

labelVars == <<canvasProps, nodeScale, importantSizeThreshold, labelBudgetRef,
               frame, drawn>>

\* State of the RAG workspace page (graph fetches, node details, view mode)
VARIABLES
  pageWorkspaceId,      \* activeWorkspaceId (0 = "")
  graphParams,          \* graphScope, graphLimit, includeFormatNodes as one value
  graphRequests,        \* loadWorkspaceData calls awaiting their responses
  graphIssued,          \* number of loadWorkspaceData calls that sent requests
  shownGraph,           \* the request whose response is the graph state
  graphRejected,        \* history: a graph request was rejected
  pageSelectedNodeId,   \* selectedNodeId (0 = "")
  nodeRequests,         \* fetchNodePayloads calls awaiting a response
  nodeIssued,           \* number of fetchNodePayloads calls
  linkedResources,      \* the call whose linked resources are shown
  nodeVariants,         \* the call whose variants are shown
  nodeRejected,         \* history: a node request was rejected
  graphViewMode,        \* "2d" or "3d"
  webglSupported,
  webglDetected,        \* the detection effect has run
  viewCrashed,          \* a render error reached the root: the view is gone
  pageMessage           \* last message of the page handlers

pageVars == <<pageWorkspaceId, graphParams, graphRequests, graphIssued,
              shownGraph, graphRejected, pageSelectedNodeId, nodeRequests,
              nodeIssued, linkedResources, nodeVariants, nodeRejected,
              graphViewMode, webglSupported, webglDetected,
              viewCrashed, pageMessage>>

\* The variables each subsystem leaves alone.
notWizVars == <<pollVars, filterVars, labelVars, pageVars>>

notPollVars == <<wizVars, filterVars, labelVars, pageVars>>

notFilterVars == <<wizVars, pollVars, labelVars, pageVars>>

notLabelVars == <<wizVars, pollVars, filterVars, pageVars>>

notPageVars == <<wizVars, pollVars, filterVars, labelVars>>

\* The "null" of a classification result.
NullData == [lane |-> "none", seq |-> 0, file |-> 0, vol |-> "", rec |-> ""]

\* The response body of request r: it is tagged with the request it answers.
DataOf(r, rec) == [lane |-> r.lane, seq |-> r.seq, file |-> r.file,
                   vol |-> r.vol, rec |-> rec]

EmptyForm == [volume_code |-> "", chapter_id |-> "", section_id |-> ""]

\* Messages written by setClassifyError.
MsgGlobalEmptyFallback == "global: no result, showing last good result"
MsgGlobalEmptyHard == "global: no valid result, retry"
MsgGlobalFailFallback == "global: failed, showing last good result"
MsgGlobalFailHard == "global: failed, retry"
MsgScopedEmptyFallback == "scoped: no result, showing last good result"
MsgScopedEmptyHard == "scoped: no valid result, retry"
MsgScopedFailFallback == "scoped: failed, showing last good result"
MsgScopedFailHard == "scoped: failed, retry"

FallbackMessages == {MsgGlobalEmptyFallback, MsgGlobalFailFallback,
                     MsgScopedEmptyFallback, MsgScopedFailFallback}
HardMessages == {MsgGlobalEmptyHard, MsgGlobalFailHard,
                 MsgScopedEmptyHard, MsgScopedFailHard}

\* Mutant of the display priority: the global lane before the scoped lane.
DisplayAutoResultGlobalFirst(scoped, auto, lastGood) ==
  IF auto # NullData THEN auto
  ELSE IF scoped # NullData THEN scoped
  ELSE lastGood

\* displayAutoResult memo: scoped, else global, else lastGoodResult, else null.
DisplayAutoResultOf(scoped, auto, lastGood) ==
  IF scoped # NullData THEN scoped
  ELSE IF auto # NullData THEN auto
  ELSE IF lastGood # NullData THEN lastGood
  ELSE NullData

displayAutoResult == DisplayAutoResultOf(scopedAutoResult, autoResult, lastGoodResult)

\* The effect that recomputes displaySource when one of its deps changed;
\* when no dep changed, the value written by the handler (set) stays.
DisplaySourceEffect(set, auto2, scoped2, lastGood2) ==
  IF auto2 = autoResult /\ scoped2 = scopedAutoResult /\ lastGood2 = lastGoodResult
  THEN set
  ELSE IF scoped2 # NullData THEN "scoped"
       ELSE IF auto2 # NullData THEN "global"
       ELSE IF lastGood2 # NullData THEN "fallback"
       ELSE "global"

\* Recommended chapter ids a classification response may carry ("" = none).
RecChapters == {"", "c1"}

\* Outcomes of a classification request: data with a recommendation, a null
\* body, or a rejected promise.
Outcomes == {"ok", "empty", "fail"}

\* What the response leaves as the lane's value when it is authoritative.
OutcomeData(r, outcome, rec) == IF outcome = "ok" THEN DataOf(r, rec) ELSE NullData

\* Commit of a handler's state writes followed by the effects that depend on
\* them: the runScopedClassify effect (deps uploadFile, form.volume_code), the
\* displaySource effect and the lastGoodResultRef sync.
Commit(file2, form2, auto2, scoped2, lastGood2, dispSet, err2, isScoped2, inflight2) ==
  LET depsChanged == file2 # uploadFile \/ form2.volume_code # form.volume_code
      issue == depsChanged /\ file2 # 0 /\ form2.volume_code # ""
      clear == depsChanged /\ ~issue
      scopedF == IF clear THEN NullData ELSE scoped2
      req == [lane |-> "scoped", seq |-> scopedReqSeqRef + 1,
              file |-> file2, vol |-> form2.volume_code]
  IN /\ issue => globalReqSeqRef + scopedReqSeqRef < MaxRequests
     /\ uploadFile' = file2
     /\ form' = form2
     /\ autoResult' = auto2
     /\ scopedAutoResult' = scopedF
     /\ lastGoodResult' = lastGood2
     /\ lastGoodResultRef' = lastGood2
     /\ scopedReqSeqRef' = IF issue THEN scopedReqSeqRef + 1 ELSE scopedReqSeqRef
     /\ isScopedClassifying' = IF issue THEN TRUE ELSE IF clear THEN FALSE ELSE isScoped2
     /\ classifyError' = IF issue THEN "" ELSE err2
     /\ inflight' = IF issue THEN inflight2 \cup {req} ELSE inflight2
     /\ displaySource' = DisplaySourceEffect(dispSet, auto2, scopedF, lastGood2)

\* onFileSelect(file) with a new File object, including runAutoClassify(file)
\* up to its await.
OnFileSelect ==
  /\ UNCHANGED notWizVars
  /\ step = 1
  /\ globalReqSeqRef + scopedReqSeqRef < MaxRequests
  /\ filesChosen' = filesChosen + 1
  /\ globalReqSeqRef' = globalReqSeqRef + 1
  /\ isClassifying' = TRUE
  /\ autoFilledChapter' = FALSE
  /\ Commit(filesChosen + 1, EmptyForm, NullData, NullData, NullData, "global", "",
            isScopedClassifying,
            inflight \cup {[lane |-> "global", seq |-> globalReqSeqRef + 1,
                            file |-> filesChosen + 1, vol |-> ""]})
  /\ UNCHANGED <<step, newestDone, lateDone>>

\* Click on a volume chip.
PickVolume(v) ==
  /\ UNCHANGED notWizVars
  /\ step = 1
  /\ autoFilledChapter' = FALSE
  /\ Commit(uploadFile, [volume_code |-> v, chapter_id |-> "", section_id |-> ""],
            autoResult, scopedAutoResult, lastGoodResult, displaySource,
            classifyError, isScopedClassifying, inflight)
  /\ UNCHANGED <<step, filesChosen, isClassifying, globalReqSeqRef, newestDone, lateDone>>

\* Click on a candidate chip of the displayed result.
PickCandidate(v, c) ==
  /\ UNCHANGED notWizVars
  /\ step = 1
  /\ displayAutoResult # NullData
  /\ autoFilledChapter' = FALSE
  /\ Commit(uploadFile,
            [volume_code |-> IF v # "" THEN v ELSE form.volume_code,
             chapter_id |-> c, section_id |-> ""],
            autoResult, scopedAutoResult, lastGoodResult, displaySource,
            classifyError, isScopedClassifying, inflight)
  /\ UNCHANGED <<step, filesChosen, isClassifying, globalReqSeqRef, newestDone, lateDone>>

\* Click on a chapter chip (rendered only when a volume is chosen).
PickChapter(c) ==
  /\ UNCHANGED notWizVars
  /\ step = 1
  /\ form.volume_code # ""
  /\ autoFilledChapter' = FALSE
  /\ form' = [form EXCEPT !.chapter_id = c, !.section_id = ""]
  /\ UNCHANGED <<step, uploadFile, filesChosen, autoResult, scopedAutoResult,
                 lastGoodResult, lastGoodResultRef, displaySource, classifyError,
                 isClassifying, isScopedClassifying, globalReqSeqRef,
                 scopedReqSeqRef, inflight, newestDone, lateDone>>

\* Click on a section chip (rendered only when a chapter is chosen).
PickSection(s) ==
  /\ UNCHANGED notWizVars
  /\ step = 1
  /\ form.chapter_id # ""
  /\ form' = [form EXCEPT !.section_id = s]
  /\ UNCHANGED <<step, uploadFile, filesChosen, autoResult, scopedAutoResult,
                 lastGoodResult, lastGoodResultRef, displaySource, classifyError,
                 isClassifying, isScopedClassifying, autoFilledChapter,
                 globalReqSeqRef, scopedReqSeqRef, inflight, newestDone, lateDone>>

\* Bookkeeping of the arrival order of responses (not program state).
Arrive(r, outcome, rec) ==
  IF r.seq > newestDone[r.lane].seq
  THEN /\ newestDone' = [newestDone EXCEPT ![r.lane] =
                           [seq |-> r.seq, out |-> OutcomeData(r, outcome, rec),
                            kind |-> outcome]]
       /\ lateDone' = lateDone
  ELSE /\ lateDone' = [lateDone EXCEPT ![r.lane] = r.seq]
       /\ newestDone' = newestDone

\* Mutants of the token comparison: no comparison at all, and a comparison
\* that only rejects tokens from the future.
IsAuthoritativeAlways(requestId, currentSeq) == TRUE

IsAuthoritativeNotNewer(requestId, currentSeq) == requestId <= currentSeq

\* The token comparison made when a response arrives.
IsAuthoritative(requestId, currentSeq) == requestId = currentSeq

\* Mutant: an authoritative global response that keeps the scoped value.
ScopedAfterGlobalKept(scoped) == scoped

\* setScopedAutoResult(null) of an authoritative global response.
ScopedAfterGlobal(scoped) == NullData

\* Mutant: a successful response that does not become lastGoodResult.
LastGoodAfterSuccessDropped(data, lastGood) == lastGood

\* `if (data) { setLastGoodResult(data); }`
LastGoodAfterSuccess(data, lastGood) == IF data # NullData THEN data ELSE lastGood

\* Mutant: a failed authoritative response that keeps the lane's value.
LaneAfterFailureKept(value) == value

\* setAutoResult(null) / setScopedAutoResult(null) of the catch branches.
LaneAfterFailure(value) == NullData

\* Message of the catch branch of runAutoClassify.
GlobalFailMessage(ref) ==
  IF ref # NullData THEN MsgGlobalFailFallback ELSE MsgGlobalFailHard

\* Message of the catch branch of runScopedClassify.
ScopedFailMessage(ref) == MsgScopedFailFallback

\* The response to a global-lane request arrives: the rest of runAutoClassify.
GlobalComplete(r, outcome, rec) ==
  /\ UNCHANGED notWizVars
  /\ r \in inflight /\ r.lane = "global"
  /\ Arrive(r, outcome, rec)
  /\ IF ~IsAuthoritative(r.seq, globalReqSeqRef)
     THEN /\ inflight' = inflight \ {r}
          /\ UNCHANGED <<uploadFile, form, autoResult, scopedAutoResult,
                         lastGoodResult, lastGoodResultRef, displaySource,
                         classifyError, isClassifying, isScopedClassifying,
                         autoFilledChapter, scopedReqSeqRef>>
     ELSE /\ isClassifying' = FALSE
          /\ autoFilledChapter' = FALSE
          /\ CASE outcome = "ok" ->
                    Commit(uploadFile, EmptyForm, DataOf(r, rec),
                           ScopedAfterGlobal(scopedAutoResult),
                           LastGoodAfterSuccess(DataOf(r, rec), lastGoodResult),
                           "global", classifyError, FALSE,
                           inflight \ {r})
               [] outcome = "empty" ->
                    Commit(uploadFile, EmptyForm, NullData,
                           ScopedAfterGlobal(scopedAutoResult),
                           lastGoodResult, "fallback",
                           IF lastGoodResultRef # NullData
                           THEN MsgGlobalEmptyFallback ELSE MsgGlobalEmptyHard,
                           FALSE, inflight \ {r})
               [] outcome = "fail" ->
                    Commit(uploadFile, form, LaneAfterFailure(autoResult),
                           ScopedAfterGlobal(scopedAutoResult), lastGoodResult,
                           IF lastGoodResultRef # NullData THEN "fallback" ELSE "global",
                           GlobalFailMessage(lastGoodResultRef),
                           FALSE, inflight \ {r})
  /\ UNCHANGED <<step, filesChosen, globalReqSeqRef>>

\* The form after a scoped response that recommends chapter rec.
FillRecommended(prev, rec) ==
  IF rec = "" \/ prev.chapter_id # "" THEN prev
  ELSE [prev EXCEPT !.chapter_id = rec, !.section_id = ""]

\* The response to a scoped-lane request arrives: the rest of runScopedClassify.
ScopedComplete(r, outcome, rec) ==
  /\ UNCHANGED notWizVars
  /\ r \in inflight /\ r.lane = "scoped"
  /\ Arrive(r, outcome, rec)
  /\ IF ~IsAuthoritative(r.seq, scopedReqSeqRef)
     THEN /\ inflight' = inflight \ {r}
          /\ UNCHANGED <<uploadFile, form, autoResult, scopedAutoResult,
                         lastGoodResult, lastGoodResultRef, displaySource,
                         classifyError, isClassifying, isScopedClassifying,
                         autoFilledChapter, scopedReqSeqRef>>
     ELSE /\ isClassifying' = isClassifying
          /\ CASE outcome = "ok" ->
                    /\ autoFilledChapter' = IF rec # "" THEN TRUE ELSE autoFilledChapter
                    /\ Commit(uploadFile, FillRecommended(form, rec), autoResult,
                              DataOf(r, rec),
                              LastGoodAfterSuccess(DataOf(r, rec), lastGoodResult),
                              "scoped", classifyError, FALSE, inflight \ {r})
               [] outcome = "empty" ->
                    /\ autoFilledChapter' = autoFilledChapter
                    /\ Commit(uploadFile, form, autoResult, NullData, lastGoodResult,
                              IF lastGoodResultRef # NullData THEN "fallback" ELSE "global",
                              IF lastGoodResultRef # NullData
                              THEN MsgScopedEmptyFallback ELSE MsgScopedEmptyHard,
                              FALSE, inflight \ {r})
               [] outcome = "fail" ->
                    /\ autoFilledChapter' = autoFilledChapter
                    /\ Commit(uploadFile, form, autoResult,
                              LaneAfterFailure(scopedAutoResult), lastGoodResult,
                              IF lastGoodResultRef # NullData THEN "fallback" ELSE "global",
                              ScopedFailMessage(lastGoodResultRef),
                              FALSE, inflight \ {r})
  /\ UNCHANGED <<step, filesChosen, globalReqSeqRef>>

\* handleNext
HandleNext ==
  /\ UNCHANGED notWizVars
  /\ step < 3
  /\ step = 1 => (uploadFile # 0 /\ form.volume_code # "" /\ form.chapter_id # ""
                  /\ form.section_id # "")
  /\ step = 2 => form.section_id # ""
  /\ step' = step + 1
  /\ UNCHANGED <<uploadFile, filesChosen, form, autoResult, scopedAutoResult,
                 lastGoodResult, lastGoodResultRef, displaySource, classifyError,
                 isClassifying, isScopedClassifying, autoFilledChapter,
                 globalReqSeqRef, scopedReqSeqRef, inflight, newestDone, lateDone>>

\* handlePrev
HandlePrev ==
  /\ UNCHANGED notWizVars
  /\ step > 1
  /\ step' = step - 1
  /\ UNCHANGED <<uploadFile, filesChosen, form, autoResult, scopedAutoResult,
                 lastGoodResult, lastGoodResultRef, displaySource, classifyError,
                 isClassifying, isScopedClassifying, autoFilledChapter,
                 globalReqSeqRef, scopedReqSeqRef, inflight, newestDone, lateDone>>

\* handleSubmit whose onSubmit reports success: resetWizard.  (While onSubmit
\* is awaited the buttons are disabled; a failed onSubmit changes nothing.)
HandleSubmit ==
  /\ UNCHANGED notWizVars
  /\ step = 3
  /\ uploadFile # 0
  /\ form.section_id # ""
  /\ step' = 1
  /\ autoFilledChapter' = FALSE
  /\ Commit(0, EmptyForm, NullData, NullData, NullData, "global", "",
            FALSE, inflight)
  /\ UNCHANGED <<filesChosen, isClassifying, globalReqSeqRef, newestDone, lateDone>>

WizInit ==
  /\ step = 1
  /\ uploadFile = 0
  /\ filesChosen = 0
  /\ form = EmptyForm
  /\ autoResult = NullData
  /\ scopedAutoResult = NullData
  /\ lastGoodResult = NullData
  /\ lastGoodResultRef = NullData
  /\ displaySource = "global"
  /\ classifyError = ""
  /\ isClassifying = FALSE
  /\ isScopedClassifying = FALSE
  /\ autoFilledChapter = FALSE
  /\ globalReqSeqRef = 0
  /\ scopedReqSeqRef = 0
  /\ inflight = {}
  /\ newestDone = [l \in {"global", "scoped"} |->
                     [seq |-> 0, out |-> NullData, kind |-> "none"]]
  /\ lateDone = [l \in {"global", "scoped"} |-> 0]

WizNext ==
  \/ OnFileSelect
  \/ \E v \in Volumes : PickVolume(v)
  \/ \E v \in Volumes \cup {""}, c \in Chapters : PickCandidate(v, c)
  \/ \E c \in Chapters : PickChapter(c)
  \/ \E s \in Sections : PickSection(s)
  \/ \E r \in inflight, o \in Outcomes : GlobalComplete(r, o, "")
  \/ \E r \in inflight, o \in Outcomes, rec \in RecChapters :
        (o # "ok" => rec = "") /\ ScopedComplete(r, o, rec)
  \/ HandleNext
  \/ HandlePrev
  \/ HandleSubmit

\* ------------------------------------------------------------------------
\* Bootstrap job poller of the RAG workspace page
\* ------------------------------------------------------------------------
MaxJobs == 2
MaxPolls == 2

Jobs == 1 .. MaxJobs

\* Mutant: done counted among the statuses that start polling.
NonTerminalOrDone == {"queued", "processing", "done"}

NonTerminalStatuses == {"queued", "processing"}
TerminalStatuses == {"done", "partial_failed", "failed", "skipped"}
Statuses == NonTerminalStatuses \cup TerminalStatuses

\* The terminal statuses the modelled server ends a job with.
ServerTerminalStatuses == {"done", "partial_failed"}

\* notifyOnFinish of a job's poller: the job of bootstrapPage (the first one)
\* is started with withMessage = false, those of handleQuickRefresh with true.
NotifyOfJob(j) == j # 1

RECURSIVE SumUpTo(_, _)
SumUpTo(f, n) == IF n = 0 THEN 0 ELSE f[n] + SumUpTo(f, n - 1)

\* Number of poll requests issued so far, over all jobs.
PollsIssued == SumUpTo(pollCount, MaxJobs)

NoJob == [job_id |-> 0, status |-> "none"]

\* job.failed_sources_count of a job the modelled server reports with
\* status st: a job that ended partial_failed has failed sources, any other
\* has none (0 also stands for a missing field).
FailedCountOf(st) == IF st = "partial_failed" THEN 2 ELSE 0

\* Mutant: failed sources reported as an error.
CompletionMessageAsError(failedCount) ==
  IF failedCount > 0 THEN "error" ELSE "finished"

\* The text handed to setGlobalMessage when a notified job has finished.
CompletionMessage(failedCount) ==
  IF failedCount > 0 THEN "finished, failed sources skipped" ELSE "finished"

Event(kind, job) == [kind |-> kind, job |-> job]

Rank(st) == IF st = "none" \/ st = "queued" THEN 0
            ELSE IF st = "processing" THEN 1 ELSE 2

\* The statuses the server may report for poll p.  The status of a job only
\* moves forward (queued, processing, one terminal status), and the server
\* reads it between the issue of the request and the arrival of the response:
\* the report is not older than what had been reported when p was issued, and a
\* terminal report agrees with an earlier terminal report.
ReportableStatuses(p) ==
  {st \in NonTerminalStatuses \cup ServerTerminalStatuses :
     /\ Rank(p.floor) <= Rank(st)
     /\ (st \in TerminalStatuses /\ serverStatus[p.job] \in TerminalStatuses)
          => st = serverStatus[p.job]}

\* The newest status of job j that has been reported, after a report of st.
Reported(j, st) == IF Rank(st) > Rank(serverStatus[j]) THEN st ELSE serverStatus[j]

\* The page is mounted with a token: bootstrapPage has called
\* runQuickBootstrap(false, false).
PollInit ==
  /\ mounted = TRUE
  /\ activeWorkspaceId = ""
  /\ bootstrapPollerRef = 0
  /\ bootstrapJob = NoJob
  /\ submits = {[id |-> 1, withMessage |-> NotifyOfJob(1)]}
  /\ jobsSubmitted = 1
  /\ serverStatus = [j \in Jobs |-> "none"]
  /\ polls = {}
  /\ pollCount = [j \in Jobs |-> 0]
  /\ graphLoads = {}
  /\ globalMessage = ""
  /\ firstTerminalPoll = [j \in Jobs |-> 0]
  /\ timers = {}
  /\ lastStarted = 0
  /\ lastEvent = Event("other", 0)
  /\ pollFailures = {}
  /\ terminalCount = [j \in Jobs |-> 0]

\* A workspace becomes active without a bootstrap (workspace created or
\* chosen in the source panel).
SelectWorkspace ==
  /\ UNCHANGED notPollVars
  /\ mounted
  /\ activeWorkspaceId = ""
  /\ activeWorkspaceId' = "w"
  /\ UNCHANGED <<mounted, bootstrapPollerRef, bootstrapJob, submits, jobsSubmitted,
                 serverStatus, polls, pollCount, graphLoads, globalMessage, firstTerminalPoll>>
  /\ UNCHANGED <<timers, lastStarted>>
  /\ lastEvent' = Event("other", 0)
  /\ UNCHANGED <<pollFailures, terminalCount>>

\* handleQuickRefresh up to the await in runQuickBootstrap(true, true).
HandleQuickRefresh ==
  /\ UNCHANGED notPollVars
  /\ mounted
  /\ activeWorkspaceId # ""
  /\ jobsSubmitted < MaxJobs
  /\ jobsSubmitted' = jobsSubmitted + 1
  /\ submits' = submits \cup {[id |-> jobsSubmitted + 1,
                               withMessage |-> NotifyOfJob(jobsSubmitted + 1)]}
  /\ UNCHANGED <<mounted, activeWorkspaceId, bootstrapPollerRef, bootstrapJob,
                 serverStatus, polls, pollCount, graphLoads, globalMessage, firstTerminalPoll>>
  /\ UNCHANGED <<timers, lastStarted>>
  /\ lastEvent' = Event("other", 0)
  /\ UNCHANGED <<pollFailures, terminalCount>>

\* Mutant: stopBootstrapPolling that leaves the timer running.
StopBootstrapPollingNoop(ref) == ref

\* Mutant: a clearInterval that clears nothing.
ClearIntervalNoop(ts, ref) == ts

\* clearInterval(bootstrapPollerRef.current) of stopBootstrapPolling: the live
\* timers afterwards (ref = 0: the guard of stopBootstrapPolling fails).
ClearInterval(ts, ref) == ts \ {ref}

\* stopBootstrapPolling: the value of bootstrapPollerRef afterwards.
StopBootstrapPolling(ref) == 0

\* quickBootstrapRag resolves with a job in status st ("none" = no job id):
\* the rest of runQuickBootstrap, with startBootstrapPolling up to the await
\* of its first poll.
SubmitResponse(sub, st) ==
  /\ UNCHANGED notPollVars
  /\ sub \in submits
  /\ submits' = submits \ {sub}
  /\ activeWorkspaceId' = IF mounted THEN "w" ELSE activeWorkspaceId
  /\ serverStatus' = [serverStatus EXCEPT ![sub.id] = st]
  /\ IF st \in NonTerminalStatuses
     THEN /\ PollsIssued < MaxPolls
          /\ bootstrapPollerRef' = sub.id
          /\ timers' = ClearInterval(timers, bootstrapPollerRef) \cup {sub.id}
          /\ polls' = polls \cup {[job |-> sub.id, n |-> 1, floor |-> st,
                                   notify |-> sub.withMessage]}
          /\ pollCount' = [pollCount EXCEPT ![sub.id] = 1]
          /\ globalMessage' = IF sub.withMessage THEN "started" ELSE globalMessage
          /\ UNCHANGED bootstrapJob
     ELSE /\ bootstrapPollerRef' = StopBootstrapPolling(bootstrapPollerRef)
          /\ timers' = ClearInterval(timers, bootstrapPollerRef)
          /\ bootstrapJob' = IF mounted THEN NoJob ELSE bootstrapJob
          /\ globalMessage' = IF sub.withMessage THEN "updated" ELSE globalMessage
          /\ UNCHANGED <<polls, pollCount>>
  /\ UNCHANGED <<mounted, jobsSubmitted, graphLoads, firstTerminalPoll>>
  /\ lastStarted' = IF st \in NonTerminalStatuses THEN sub.id ELSE lastStarted
  /\ lastEvent' = Event(IF st \in NonTerminalStatuses THEN "start" ELSE "nopoll", sub.id)
  /\ UNCHANGED <<pollFailures, terminalCount>>

\* quickBootstrapRag rejects: the caller's catch reports the error.
SubmitFailure(sub) ==
  /\ UNCHANGED notPollVars
  /\ sub \in submits
  /\ submits' = submits \ {sub}
  /\ globalMessage' = "error"
  /\ UNCHANGED <<mounted, activeWorkspaceId, bootstrapPollerRef, bootstrapJob,
                 jobsSubmitted, serverStatus, polls, pollCount, graphLoads, firstTerminalPoll>>
  /\ UNCHANGED <<timers, lastStarted>>
  /\ lastEvent' = Event("submitfail", sub.id)
  /\ UNCHANGED <<pollFailures, terminalCount>>

\* The interval timer of job j fires: pollBootstrapJob up to its await.
PollTick(j) ==
  /\ UNCHANGED notPollVars
  /\ j \in timers
  /\ PollsIssued < MaxPolls
  /\ pollCount' = [pollCount EXCEPT ![j] = pollCount[j] + 1]
  /\ polls' = polls \cup
       {[job |-> j, n |-> pollCount[j] + 1, floor |-> serverStatus[j],
         notify |-> NotifyOfJob(j)]}
  /\ UNCHANGED <<mounted, activeWorkspaceId, bootstrapPollerRef, bootstrapJob,
                 submits, jobsSubmitted, serverStatus, graphLoads, globalMessage, firstTerminalPoll>>
  /\ UNCHANGED <<timers, lastStarted>>
  /\ lastEvent' = Event("other", 0)
  /\ UNCHANGED <<pollFailures, terminalCount>>

\* getRagBootstrapJob of poll p resolves with status st: the rest of
\* pollBootstrapJob up to the await of loadWorkspaceData.
PollResponse(p, st) ==
  /\ UNCHANGED notPollVars
  /\ p \in polls
  /\ st \in ReportableStatuses(p)
  /\ polls' = polls \ {p}
  /\ bootstrapJob' = IF mounted THEN [job_id |-> p.job, status |-> st]
                     ELSE bootstrapJob
  /\ IF st \in TerminalStatuses
     THEN /\ bootstrapPollerRef' = StopBootstrapPolling(bootstrapPollerRef)
          /\ timers' = ClearInterval(timers, bootstrapPollerRef)
          /\ graphLoads' = graphLoads \cup {[job |-> p.job, n |-> p.n, notify |-> p.notify,
                                             failed |-> FailedCountOf(st)]}
          /\ firstTerminalPoll' =
               IF firstTerminalPoll[p.job] = 0
               THEN [firstTerminalPoll EXCEPT ![p.job] = p.n]
               ELSE firstTerminalPoll
     ELSE UNCHANGED <<bootstrapPollerRef, timers, graphLoads,
                      firstTerminalPoll>>
  /\ serverStatus' = [serverStatus EXCEPT ![p.job] = Reported(p.job, st)]
  /\ UNCHANGED <<mounted, activeWorkspaceId, submits, jobsSubmitted,
                 pollCount, globalMessage>>
  /\ UNCHANGED lastStarted
  /\ lastEvent' = Event(IF st \in TerminalStatuses THEN "terminal" ELSE "continue", p.job)
  /\ terminalCount' = IF st \in TerminalStatuses
                    THEN [terminalCount EXCEPT ![p.job] = terminalCount[p.job] + 1]
                    ELSE terminalCount
  /\ UNCHANGED pollFailures

\* getRagBootstrapJob of poll p rejects (transport failure): the catch branch.
PollFailure(p) ==
  /\ UNCHANGED notPollVars
  /\ p \in polls
  /\ polls' = polls \ {p}
  /\ bootstrapPollerRef' = StopBootstrapPolling(bootstrapPollerRef)
  /\ globalMessage' = "error"
  /\ UNCHANGED <<mounted, activeWorkspaceId, bootstrapJob, submits, jobsSubmitted,
                 serverStatus, pollCount, graphLoads,
                 firstTerminalPoll>>
  /\ timers' = ClearInterval(timers, bootstrapPollerRef)
  /\ UNCHANGED lastStarted
  /\ lastEvent' = Event("fail", p.job)
  /\ pollFailures' = pollFailures \cup {p.job}
  /\ UNCHANGED terminalCount

\* loadWorkspaceData awaited by pollBootstrapJob resolves: the completion
\* message when notifyOnFinish is set.
GraphLoadDone(g) ==
  /\ UNCHANGED notPollVars
  /\ g \in graphLoads
  /\ graphLoads' = graphLoads \ {g}
  /\ globalMessage' = IF g.notify THEN CompletionMessage(g.failed) ELSE globalMessage
  /\ UNCHANGED <<mounted, activeWorkspaceId, bootstrapPollerRef, bootstrapJob,
                 submits, jobsSubmitted, serverStatus, polls, pollCount, firstTerminalPoll>>
  /\ UNCHANGED <<timers, lastStarted>>
  /\ lastEvent' = Event("loaded", g.job)
  /\ UNCHANGED <<pollFailures, terminalCount>>

\* loadWorkspaceData awaited by pollBootstrapJob rejects: the catch branch of
\* pollBootstrapJob.
GraphLoadFailure(g) ==
  /\ UNCHANGED notPollVars
  /\ g \in graphLoads
  /\ graphLoads' = graphLoads \ {g}
  /\ bootstrapPollerRef' = StopBootstrapPolling(bootstrapPollerRef)
  /\ globalMessage' = "error"
  /\ UNCHANGED <<mounted, activeWorkspaceId, bootstrapJob, submits, jobsSubmitted,
                 serverStatus, polls, pollCount,
                 firstTerminalPoll>>
  /\ timers' = ClearInterval(timers, bootstrapPollerRef)
  /\ UNCHANGED lastStarted
  /\ lastEvent' = Event("loadfail", g.job)
  /\ UNCHANGED <<pollFailures, terminalCount>>

\* The page is torn down: the cleanup of the unmount effect.
Unmount ==
  /\ UNCHANGED notPollVars
  /\ mounted
  /\ mounted' = FALSE
  /\ bootstrapPollerRef' = StopBootstrapPolling(bootstrapPollerRef)
  /\ UNCHANGED <<activeWorkspaceId, bootstrapJob, submits, jobsSubmitted,
                 serverStatus, polls, pollCount, graphLoads, globalMessage, firstTerminalPoll>>
  /\ timers' = ClearInterval(timers, bootstrapPollerRef)
  /\ UNCHANGED lastStarted
  /\ lastEvent' = Event("other", 0)
  /\ UNCHANGED <<pollFailures, terminalCount>>

PollNext ==
  \/ SelectWorkspace
  \/ HandleQuickRefresh
  \/ \E sub \in submits,
        st \in NonTerminalStatuses \cup ServerTerminalStatuses \cup {"none"} :
          SubmitResponse(sub, st)
  \/ \E sub \in submits : SubmitFailure(sub)
  \/ \E j \in Jobs : PollTick(j)
  \/ \E p \in polls, st \in Statuses : PollResponse(p, st)
  \/ \E p \in polls : PollFailure(p)
  \/ \E g \in graphLoads : GraphLoadDone(g)
  \/ \E g \in graphLoads : GraphLoadFailure(g)
  \/ Unmount

\* ---------------------------------------------------------------------
\* RAG workspace page: graph snapshot, live filters, visible graph
\* ---------------------------------------------------------------------

MaxNodes == 2
MaxEdges == 1

NodeIds == 1 .. MaxNodes

\* What a node of a snapshot can look like.  "" stands for a missing
\* attribute (meta.difficulty, meta.format_group).
NodeKinds ==
  { [node_type |-> "resource", difficulty |-> "basic", format_group |-> "ppt"],
    [node_type |-> "resource", difficulty |-> "",      format_group |-> ""],
    [node_type |-> "format",   difficulty |-> "",      format_group |-> "ppt"],
    [node_type |-> "chapter",  difficulty |-> "",      format_group |-> ""] }

EdgeTypes == {"contains", "related_to"}

\* The edges a snapshot can hold: from a node to the next one of the list.
\* An endpoint need not be a node of the snapshot (the node list is cut at
\* graphLimit).
EdgeCandidates ==
  { e \in [source : NodeIds, target : NodeIds, edge_type : EdgeTypes] :
      e.target = e.source + 1 }

NodeOf(i, kind) ==
  [id |-> i, node_type |-> kind.node_type, difficulty |-> kind.difficulty,
   format_group |-> kind.format_group]

EmptyGraph == [nodes |-> << >>, edges |-> {}]

EmptyFilter == [k \in {} |-> TRUE]

\* `meta.difficulty || "未标注"` and `meta.format_group || "other"`
DefaultDifficulty == "unlabelled"

DefaultFormatGroup == "other"

OrDefault(value, default) == IF value = "" THEN default ELSE value

\* `filter[key] ?? true`
FlagOf(filter, key) == IF key \in DOMAIN filter THEN filter[key] ELSE TRUE

NodesOf(g) == {g.nodes[i] : i \in DOMAIN g.nodes}

AllNodeTypesOf(g) == {n.node_type : n \in NodesOf(g)} \ {""}

AllEdgeTypesOf(g) == {e.edge_type : e \in g.edges} \ {""}

AllDifficultiesOf(g) ==
  {OrDefault(n.difficulty, DefaultDifficulty) :
     n \in {m \in NodesOf(g) : m.node_type = "resource"}}

AllFormatGroupsOf(g) ==
  {OrDefault(n.format_group, DefaultFormatGroup) :
     n \in {m \in NodesOf(g) : m.node_type \in {"resource", "format"}}}

allNodeTypes == AllNodeTypesOf(graph)

allEdgeTypes == AllEdgeTypesOf(graph)

allDifficulties == AllDifficultiesOf(graph)

allFormatGroups == AllFormatGroupsOf(graph)

\* Mutant: a merge that keeps the entries of values no longer present.
mergeFilterStateKeepAll(previous, keys) ==
  [key \in keys \cup DOMAIN previous |-> FlagOf(previous, key)]

mergeFilterState(previous, keys) == [key \in keys |-> FlagOf(previous, key)]

\* The node predicate without the difficulty and format dimensions.
NodeKeptTypeOnly(item, allowedNodeTypes, allowedDifficulties, allowedFormats) ==
  item.node_type \in allowedNodeTypes

\* The predicate of graph.nodes.filter(...) in filteredGraph.
NodeKept(item, allowedNodeTypes, allowedDifficulties, allowedFormats) ==
  IF item.node_type \notin allowedNodeTypes THEN FALSE
  ELSE IF item.node_type = "resource"
       THEN /\ OrDefault(item.difficulty, DefaultDifficulty) \in allowedDifficulties
            /\ OrDefault(item.format_group, DefaultFormatGroup) \in allowedFormats
  ELSE IF item.node_type = "format"
       THEN OrDefault(item.format_group, DefaultFormatGroup) \in allowedFormats
  ELSE TRUE

\* The predicate of graph.edges.filter(...) without the test of the target.
EdgeKeptSourceOnly(edge, nodeIds, allowedEdgeTypes) ==
  edge.source \in nodeIds /\ edge.edge_type \in allowedEdgeTypes

\* The predicate of graph.edges.filter(...) in filteredGraph.
EdgeKept(edge, nodeIds, allowedEdgeTypes) ==
  /\ edge.source \in nodeIds
  /\ edge.target \in nodeIds
  /\ edge.edge_type \in allowedEdgeTypes

FilteredGraphOf(g, nodeFlt, edgeFlt, diffFlt, fmtFlt) ==
  LET allowedNodeTypes == {t \in AllNodeTypesOf(g) : FlagOf(nodeFlt, t)}
      allowedDifficulties == {v \in AllDifficultiesOf(g) : FlagOf(diffFlt, v)}
      allowedFormats == {v \in AllFormatGroupsOf(g) : FlagOf(fmtFlt, v)}
      Keep(item) == NodeKept(item, allowedNodeTypes, allowedDifficulties, allowedFormats)
      nodes == SelectSeq(g.nodes, Keep)
      nodeIds == {nodes[i].id : i \in DOMAIN nodes}
      allowedEdgeTypes == {t \in AllEdgeTypesOf(g) : FlagOf(edgeFlt, t)}
  IN [nodes |-> nodes,
      edges |-> {e \in g.edges : EdgeKept(e, nodeIds, allowedEdgeTypes)}]

filteredGraph ==
  FilteredGraphOf(graph, nodeTypeFilter, edgeTypeFilter, difficultyFilter, formatFilter)

VisibleIds(fg) == {fg.nodes[i].id : i \in DOMAIN fg.nodes}

\* Mutant: no repair, the selection is left as written.
RepairSelectionKept(fg, sel) == sel

\* The selection-repair effect.
RepairSelection(fg, sel) ==
  IF Len(fg.nodes) = 0 THEN 0
  ELSE IF sel \in VisibleIds(fg) THEN sel
  ELSE fg.nodes[1].id

NoMerge == [phase |-> "none", key |-> ""]

\* mergeHistory after a merge has turned the map previous into the map next.
MergeHistoryAfter(history, previous, next) ==
  LET droppedOff == {k \in DOMAIN previous \ DOMAIN next : ~previous[k]} IN
    IF history.phase = "dropped" /\ history.key \in DOMAIN next \ DOMAIN previous
    THEN [phase |-> "reinserted", key |-> history.key]
    ELSE IF droppedOff # {}
    THEN [phase |-> "dropped", key |-> CHOOSE k \in droppedOff : TRUE]
    ELSE NoMerge

\* The state after a handler has written graph2, the four maps and sel2
\* and React has rendered and run the effects: the four merge effects when
\* the snapshot was replaced, then selection repair.
FilterCommit(graph2, nodeFlt, edgeFlt, diffFlt, fmtFlt, sel2, replaced) ==
  LET nf == IF replaced THEN mergeFilterState(nodeFlt, AllNodeTypesOf(graph2)) ELSE nodeFlt
      ef == IF replaced THEN mergeFilterState(edgeFlt, AllEdgeTypesOf(graph2)) ELSE edgeFlt
      df == IF replaced THEN mergeFilterState(diffFlt, AllDifficultiesOf(graph2)) ELSE diffFlt
      ff == IF replaced THEN mergeFilterState(fmtFlt, AllFormatGroupsOf(graph2)) ELSE fmtFlt
  IN /\ graph' = graph2
     /\ nodeTypeFilter' = nf
     /\ edgeTypeFilter' = ef
     /\ difficultyFilter' = df
     /\ formatFilter' = ff
     /\ selectedNodeId' = RepairSelection(FilteredGraphOf(graph2, nf, ef, df, ff), sel2)
     /\ mergeHistory' = IF replaced THEN MergeHistoryAfter(mergeHistory, edgeFlt, ef)
                        ELSE NoMerge

\* The snapshots the server answers with after the current one: the graph
\* of a workspace changes by one node (added, removed or replaced at the end
\* of the list) or one edge between two loads.
NextSnapshots(g) ==
  LET n == Len(g.nodes) IN
    {[g EXCEPT !.nodes = Append(g.nodes, NodeOf(n + 1, kind))] :
        kind \in {k \in NodeKinds : n < MaxNodes}}
    \cup {[g EXCEPT !.nodes = SubSeq(g.nodes, 1, n - 1)] : x \in {y \in {0} : n > 0}}
    \cup {[g EXCEPT !.nodes[n] = NodeOf(n, kind)] : kind \in {k \in NodeKinds : n > 0}}
    \cup {[g EXCEPT !.edges = g.edges \cup {e}] :
            e \in {c \in EdgeCandidates : Cardinality(g.edges) < MaxEdges}}
    \cup {[g EXCEPT !.edges = g.edges \ {e}] : e \in g.edges}

\* loadWorkspaceData answered: setGraph(graphData), then the effects.
SetGraph(snapshot) ==
  /\ UNCHANGED notFilterVars
  /\ snapshot # graph
  /\ FilterCommit(snapshot, nodeTypeFilter, edgeTypeFilter, difficultyFilter,
                  formatFilter, selectedNodeId, TRUE)

\* loadWorkspaceData without a workspace: empty graph, selection cleared.
ClearGraph ==
  /\ UNCHANGED notFilterVars
  /\ FilterCommit(EmptyGraph, nodeTypeFilter, edgeTypeFilter, difficultyFilter,
                  formatFilter, 0, TRUE)

\* `{ ...prev, [key]: !(prev[key] ?? true) }`
ToggleFlag(prev, key) ==
  [k \in DOMAIN prev \cup {key} |-> IF k = key THEN ~FlagOf(prev, key) ELSE prev[k]]

ToggleNodeType(type) ==
  /\ UNCHANGED notFilterVars
  /\ type \in allNodeTypes
  /\ FilterCommit(graph, ToggleFlag(nodeTypeFilter, type), edgeTypeFilter,
                  difficultyFilter, formatFilter, selectedNodeId, FALSE)

ToggleEdgeType(type) ==
  /\ UNCHANGED notFilterVars
  /\ type \in allEdgeTypes
  /\ FilterCommit(graph, nodeTypeFilter, ToggleFlag(edgeTypeFilter, type),
                  difficultyFilter, formatFilter, selectedNodeId, FALSE)

ToggleDifficulty(value) ==
  /\ UNCHANGED notFilterVars
  /\ value \in allDifficulties
  /\ FilterCommit(graph, nodeTypeFilter, edgeTypeFilter,
                  ToggleFlag(difficultyFilter, value), formatFilter, selectedNodeId, FALSE)

ToggleFormat(value) ==
  /\ UNCHANGED notFilterVars
  /\ value \in allFormatGroups
  /\ FilterCommit(graph, nodeTypeFilter, edgeTypeFilter, difficultyFilter,
                  ToggleFlag(formatFilter, value), selectedNodeId, FALSE)

ResetGraphFilters ==
  /\ UNCHANGED notFilterVars
  /\ FilterCommit(graph,
                  [k \in allNodeTypes |-> TRUE], [k \in allEdgeTypes |-> TRUE],
                  [k \in allDifficulties |-> TRUE], [k \in allFormatGroups |-> TRUE],
                  selectedNodeId, FALSE)

\* onSelectNode={setSelectedNodeId}: a click on a node of the canvas.
SelectNode(id) ==
  /\ UNCHANGED notFilterVars
  /\ id \in VisibleIds(filteredGraph)
  /\ id # selectedNodeId
  /\ FilterCommit(graph, nodeTypeFilter, edgeTypeFilter, difficultyFilter,
                  formatFilter, id, FALSE)

\* setSelectedNodeId with the first highlighted node of a semantic search
\* result or of an answer: the id comes from the server and need not be
\* the id of a visible node, nor of a node of the snapshot.
SelectHighlighted(id) ==
  /\ UNCHANGED notFilterVars
  /\ id # selectedNodeId
  /\ FilterCommit(graph, nodeTypeFilter, edgeTypeFilter, difficultyFilter,
                  formatFilter, id, FALSE)

FilterInit ==
  /\ graph = EmptyGraph
  /\ nodeTypeFilter = EmptyFilter
  /\ edgeTypeFilter = EmptyFilter
  /\ difficultyFilter = EmptyFilter
  /\ formatFilter = EmptyFilter
  /\ selectedNodeId = 0
  /\ mergeHistory = NoMerge

FilterNext ==
  \/ \E snapshot \in NextSnapshots(graph) : SetGraph(snapshot)
  \/ ClearGraph
  \/ \E type \in {"resource", "format", "chapter"} : ToggleNodeType(type)
  \/ \E type \in EdgeTypes : ToggleEdgeType(type)
  \/ \E value \in {"basic", DefaultDifficulty} : ToggleDifficulty(value)
  \/ \E value \in {"ppt", DefaultFormatGroup} : ToggleFormat(value)
  \/ ResetGraphFilters
  \/ \E id \in NodeIds : SelectNode(id)
  \/ \E id \in NodeIds : SelectHighlighted(id)

\* ---------------------------------------------------------------------
\* 2D canvas: level-of-detail label scheduler (RagGraph2DCanvas.jsx)
\* ---------------------------------------------------------------------

\* Number of nodes of the graph handed to the canvas: more than the
\* largest label cap, so that every cap can be exhausted within one pass.
NumNodes == 150

\* Zoom in thousandths, node scale in tenths, sizes in hundredths.
MAP_LABEL_ZOOM_RESOURCE == 1600
MAP_LABEL_ZOOM_CONTEXT == 2400
MAP_LABEL_ZOOM_IMPORTANT == 3000
LABEL_MAX_LENGTH == 14
LABEL_CAP_L1 == 40
LABEL_CAP_L2 == 80
LABEL_CAP_L3 == 140
MIN_NODE_SCALE == 6
MAX_NODE_SCALE == 26

\* Number.POSITIVE_INFINITY: above every size.
POSITIVE_INFINITY == 1000000

\* globalScale values of a paint pass; 1596 and 1604 print as "1.60".
ZoomValues == {1000, 1596, 1600, 1604, 2400, 3000}

\* Values entered on the node-scale slider (before clamping).
ScaleInputs == {5, 10, 27}

\* Nodes the page selects / highlights.
SelectChoices == {0, 2, 3}

HighlightChoices == SUBSET {1, NumNodes}

GraphSizes == {0, NumNodes}

\* The nodes of the canvas graph, by id (= position in graph.nodes).
\* Among 20 consecutive nodes: 1 format, 9 resource, 6 chapter, 2 section,
\* 2 knowledge_point.
NodeTypeOf(i) ==
  LET r == i % 20 IN
    IF r = 0 THEN "format"
    ELSE IF r <= 9 THEN "resource"
    ELSE IF r <= 15 THEN "chapter"
    ELSE IF r <= 17 THEN "section"
    ELSE "knowledge_point"

\* meta.difficulty of a node ("" = none).
DifficultyOf(i) ==
  IF NodeTypeOf(i) # "resource" THEN ""
  ELSE IF i % 3 = 0 THEN "challenge"
  ELSE IF i % 3 = 1 THEN "advanced"
  ELSE ""

\* Texts are sequences of characters.  Node 3 carries a keyword_label of
\* blanks, node 2 one of 15 characters, node 1 none.
KeywordLabelOf(i) ==
  IF i = 1 THEN << >>
  ELSE IF i = 2 THEN [k \in 1 .. LABEL_MAX_LENGTH + 1 |-> "x"]
  ELSE IF i = 3 THEN <<" ", " ">>
  ELSE <<"k">>

LabelOf(i) == <<"n">>

IdText(i) == <<"#">>

\* a || b || ... : the first operand that is not the empty string
RECURSIVE FirstTruthy(_)
FirstTruthy(texts) ==
  IF Len(texts) = 0 THEN << >>
  ELSE IF Len(Head(texts)) > 0 THEN Head(texts)
  ELSE FirstTruthy(Tail(texts))

\* String.prototype.trim
RECURSIVE Trim(_)
Trim(text) ==
  IF Len(text) = 0 THEN text
  ELSE IF Head(text) = " " THEN Trim(Tail(text))
  ELSE IF text[Len(text)] = " " THEN Trim(SubSeq(text, 1, Len(text) - 1))
  ELSE text

shortenLabel(raw) ==
  LET text == Trim(raw) IN
    IF Len(text) = 0 THEN << >>
    ELSE IF Len(text) > LABEL_MAX_LENGTH
         THEN SubSeq(text, 1, LABEL_MAX_LENGTH) \o <<"...">>
    ELSE text

\* graphData: name = keyword_label || label || id
NameOf(i) == FirstTruthy(<<KeywordLabelOf(i), LabelOf(i), IdText(i)>>)

nodeDisplayName(i) ==
  FirstTruthy(<<KeywordLabelOf(i), NameOf(i), LabelOf(i), IdText(i), <<"node">>>>)

sizeForNode(nodeType, difficulty, scale) ==
  LET base == IF nodeType = "resource" THEN 45
              ELSE IF nodeType = "format" THEN 65 ELSE 80
  IN IF difficulty = "challenge" THEN (base + 25) * scale
     ELSE IF difficulty = "advanced" THEN (base + 15) * scale
     ELSE IF difficulty = "basic" THEN (base + 8) * scale
     ELSE base * scale

SizeOf(i, scale) == sizeForNode(NodeTypeOf(i), DifficultyOf(i), scale)

\* Mutant: the index without the `- 1`.
ImportantSizeThresholdOffByOne(n, scale) ==
  IF n = 0 THEN POSITIVE_INFINITY
  ELSE LET floored == (n * 3) \div 10
           index == floored
           sizes == {SizeOf(i, scale) : i \in 1 .. n}
       IN CHOOSE v \in sizes :
            /\ Cardinality({i \in 1 .. n : SizeOf(i, scale) > v}) <= index
            /\ Cardinality({i \in 1 .. n : SizeOf(i, scale) >= v}) > index

\* sizeValues sorted descending, then sizeValues[index]: the value with at
\* most `index` sizes above it and more than `index` sizes at or above it.
ImportantSizeThresholdOf(n, scale) ==
  IF n = 0 THEN POSITIVE_INFINITY
  ELSE LET floored == (n * 3) \div 10
           index == IF floored - 1 > 0 THEN floored - 1 ELSE 0
           sizes == {SizeOf(i, scale) : i \in 1 .. n}
       IN CHOOSE v \in sizes :
            /\ Cardinality({i \in 1 .. n : SizeOf(i, scale) > v}) <= index
            /\ Cardinality({i \in 1 .. n : SizeOf(i, scale) >= v}) > index

labelCapForScale(globalScale) ==
  IF globalScale >= MAP_LABEL_ZOOM_IMPORTANT THEN LABEL_CAP_L3
  ELSE IF globalScale >= MAP_LABEL_ZOOM_CONTEXT THEN LABEL_CAP_L2
  ELSE IF globalScale >= MAP_LABEL_ZOOM_RESOURCE THEN LABEL_CAP_L1
  ELSE 0

BucketOf(globalScale) ==
  IF globalScale >= MAP_LABEL_ZOOM_IMPORTANT THEN "L3"
  ELSE IF globalScale >= MAP_LABEL_ZOOM_CONTEXT THEN "L2"
  ELSE IF globalScale >= MAP_LABEL_ZOOM_RESOURCE THEN "L1"
  ELSE "L0"

\* globalScale.toFixed(2), in hundredths
ToFixed2(globalScale) == (globalScale + 5) \div 10

FrameKeyOf(globalScale) == <<BucketOf(globalScale), ToFixed2(globalScale)>>

PinnedLabel(i) ==
  i = canvasProps.selectedNodeId \/ i \in canvasProps.highlightNodes

\* Mutant: the context tier opens at the resource threshold.
shouldShowLabelContextEarly(i, globalScale) ==
  IF PinnedLabel(i) THEN TRUE
  ELSE IF globalScale < MAP_LABEL_ZOOM_RESOURCE THEN FALSE
  ELSE IF globalScale < MAP_LABEL_ZOOM_IMPORTANT
       THEN NodeTypeOf(i) \in {"resource", "chapter", "section"}
  ELSE \/ NodeTypeOf(i) \in {"resource", "chapter", "section"}
       \/ SizeOf(i, nodeScale) >= importantSizeThreshold

shouldShowLabel(i, globalScale) ==
  IF PinnedLabel(i) THEN TRUE
  ELSE IF globalScale < MAP_LABEL_ZOOM_RESOURCE THEN FALSE
  ELSE IF globalScale < MAP_LABEL_ZOOM_CONTEXT THEN NodeTypeOf(i) = "resource"
  ELSE IF globalScale < MAP_LABEL_ZOOM_IMPORTANT
       THEN NodeTypeOf(i) \in {"resource", "chapter", "section"}
  ELSE \/ NodeTypeOf(i) \in {"resource", "chapter", "section"}
       \/ SizeOf(i, nodeScale) >= importantSizeThreshold

\* The budget test with the comparison off by one.
BudgetExhaustedAbove(count, cap) == count > cap

\* `labelBudgetRef.current.count >= cap`
BudgetExhausted(count, cap) == count >= cap

FrameIdle == frame.next = 0

\* The graph prop changes (the visible graph of the page was recomputed).
SetCanvasGraph(n) ==
  /\ UNCHANGED notLabelVars
  /\ FrameIdle
  /\ n # canvasProps.graph
  /\ canvasProps' = [canvasProps EXCEPT !.graph = n]
  /\ importantSizeThreshold' = ImportantSizeThresholdOf(n, nodeScale)
  /\ UNCHANGED <<nodeScale, labelBudgetRef, frame, drawn>>

\* The selectedNodeId prop changes.
SetSelected(id) ==
  /\ UNCHANGED notLabelVars
  /\ FrameIdle
  /\ id # canvasProps.selectedNodeId
  /\ canvasProps' = [canvasProps EXCEPT !.selectedNodeId = id]
  /\ UNCHANGED <<nodeScale, importantSizeThreshold, labelBudgetRef, frame, drawn>>

\* The highlightNodes prop changes.
SetHighlight(ids) ==
  /\ UNCHANGED notLabelVars
  /\ FrameIdle
  /\ ids # canvasProps.highlightNodes
  /\ canvasProps' = [canvasProps EXCEPT !.highlightNodes = ids]
  /\ UNCHANGED <<nodeScale, importantSizeThreshold, labelBudgetRef, frame, drawn>>

updateNodeScale(next) ==
  /\ UNCHANGED notLabelVars
  /\ FrameIdle
  /\ LET clamped == IF next < MIN_NODE_SCALE THEN MIN_NODE_SCALE
                    ELSE IF next > MAX_NODE_SCALE THEN MAX_NODE_SCALE ELSE next
     IN /\ clamped # nodeScale
        /\ nodeScale' = clamped
        /\ importantSizeThreshold' = ImportantSizeThresholdOf(canvasProps.graph, clamped)
  /\ UNCHANGED <<canvasProps, labelBudgetRef, frame, drawn>>

\* The graph library starts a paint pass at zoom globalScale.
BeginFrame(globalScale) ==
  /\ UNCHANGED notLabelVars
  /\ FrameIdle
  /\ frame' = [globalScale |-> globalScale,
               next |-> IF canvasProps.graph > 0 THEN 1 ELSE 0]
  /\ drawn' = {}
  /\ UNCHANGED <<canvasProps, nodeScale, importantSizeThreshold, labelBudgetRef>>

\* nodeCanvasObject(node, ctx, globalScale) for the next node of the pass.
NodeCanvasObject ==
  /\ UNCHANGED notLabelVars
  /\ ~FrameIdle
  /\ LET i == frame.next
         globalScale == frame.globalScale
         pinnedLabel == PinnedLabel(i)
         label == shortenLabel(nodeDisplayName(i))
         frameKey == FrameKeyOf(globalScale)
         budget == IF labelBudgetRef.frameKey # frameKey
                   THEN [frameKey |-> frameKey, count |-> 0]
                   ELSE labelBudgetRef
         cap == labelCapForScale(globalScale)
     IN /\ frame' = [frame EXCEPT !.next = IF i < canvasProps.graph THEN i + 1 ELSE 0]
        /\ IF ~shouldShowLabel(i, globalScale) \/ Len(label) = 0
           THEN UNCHANGED <<labelBudgetRef, drawn>>
           ELSE IF pinnedLabel
           THEN /\ drawn' = drawn \cup {[id |-> i, pinned |-> TRUE]}
                /\ UNCHANGED labelBudgetRef
           ELSE IF BudgetExhausted(budget.count, cap)
           THEN /\ labelBudgetRef' = budget
                /\ UNCHANGED drawn
           ELSE /\ labelBudgetRef' = [budget EXCEPT !.count = budget.count + 1]
                /\ drawn' = drawn \cup {[id |-> i, pinned |-> FALSE]}
  /\ UNCHANGED <<canvasProps, nodeScale, importantSizeThreshold>>

LabelInit ==
  /\ canvasProps = [graph |-> 0, selectedNodeId |-> 0, highlightNodes |-> {}]
  /\ nodeScale = 10
  /\ importantSizeThreshold = POSITIVE_INFINITY
  /\ labelBudgetRef = [frameKey |-> << >>, count |-> 0]
  /\ frame = [globalScale |-> 1000, next |-> 0]
  /\ drawn = {}

LabelNext ==
  \/ \E n \in GraphSizes : SetCanvasGraph(n)
  \/ \E id \in SelectChoices : SetSelected(id)
  \/ \E ids \in HighlightChoices : SetHighlight(ids)
  \/ \E next \in ScaleInputs : updateNodeScale(next)
  \/ \E globalScale \in ZoomValues : BeginFrame(globalScale)
  \/ NodeCanvasObject

\* ---------------------------------------------------------------------
\* RAG workspace page: graph fetches, node details, rendering mode
\* ---------------------------------------------------------------------

\* loadWorkspaceData calls that send requests in one behaviour.
MaxGraphFetches == 2

\* fetchNodePayloads calls in one behaviour.
MaxNodeFetches == 2

Workspaces == {1, 2}

\* Values of (graphScope, graphLimit, includeFormatNodes).
GraphParamValues == {1, 2}

\* selectedNodeId: "" or a node id.
PageNodes == {0} \cup NodeIds

\* Nothing fetched: the initial graph, the cleared node payloads.
NoSnapshot == [seq |-> 0, workspace |-> 0, params |-> 0]

NoPayload == [seq |-> 0, node |-> 0]

\* What the page renders in the graph area (render, lines 960-992).
RenderedCanvas ==
  IF viewCrashed THEN "none"
  ELSE IF graphViewMode = "3d" /\ webglSupported THEN "3d" ELSE "2d"

\* loadWorkspaceData(workspaceId) with a workspace, up to its await: the
\* requests go out with the parameters of the call's closure; nothing
\* marks an earlier call as superseded.
LoadWorkspaceData(workspaceId, params) ==
  /\ graphIssued < MaxGraphFetches
  /\ graphIssued' = graphIssued + 1
  /\ graphRequests' = graphRequests \cup
       {[seq |-> graphIssued + 1, workspace |-> workspaceId, params |-> params]}

\* The node payload effect for selection sel (deps: token, active
\* workspace, selection): clears the payloads without a selection, else
\* calls fetchNodePayloads; no cleanup, nothing marks an earlier call stale.
NodePayloadEffect(sel) ==
  IF sel = 0
  THEN /\ linkedResources' = NoPayload
       /\ nodeVariants' = NoPayload
       /\ UNCHANGED <<nodeRequests, nodeIssued>>
  ELSE /\ nodeIssued < MaxNodeFetches
       /\ nodeIssued' = nodeIssued + 1
       /\ nodeRequests' = nodeRequests \cup
            {[seq |-> nodeIssued + 1, node |-> sel, stage |-> "linked"]}
       /\ UNCHANGED <<linkedResources, nodeVariants>>

\* A workspace is chosen: setActiveWorkspaceId(value); loadWorkspaceData(value);
\* the node payload effect runs because the active workspace changed.
SwitchWorkspace(w) ==
  /\ UNCHANGED notPageVars
  /\ ~viewCrashed
  /\ w # pageWorkspaceId
  /\ pageWorkspaceId' = w
  /\ LoadWorkspaceData(w, graphParams)
  /\ NodePayloadEffect(pageSelectedNodeId)
  /\ UNCHANGED <<graphParams, shownGraph, graphRejected, pageSelectedNodeId,
                 nodeRejected, graphViewMode, webglSupported,
                 webglDetected, viewCrashed, pageMessage>>

\* Scope, node limit or format-node toggle changed: the graph parameter
\* effect reloads the active workspace, if there is one.
ChangeGraphParams(p) ==
  /\ UNCHANGED notPageVars
  /\ ~viewCrashed
  /\ p # graphParams
  /\ graphParams' = p
  /\ IF pageWorkspaceId # 0
     THEN LoadWorkspaceData(pageWorkspaceId, p)
     ELSE UNCHANGED <<graphIssued, graphRequests>>
  /\ UNCHANGED <<pageWorkspaceId, shownGraph, graphRejected, pageSelectedNodeId,
                 nodeRequests, nodeIssued, linkedResources, nodeVariants,
                 nodeRejected, graphViewMode, webglSupported,
                 webglDetected, viewCrashed, pageMessage>>

\* loadWorkspaceData(activeWorkspaceId) of the refresh buttons, of the
\* source handlers and after a finished job.
RefreshGraph ==
  /\ UNCHANGED notPageVars
  /\ ~viewCrashed
  /\ pageWorkspaceId # 0
  /\ LoadWorkspaceData(pageWorkspaceId, graphParams)
  /\ UNCHANGED <<pageWorkspaceId, graphParams, shownGraph, graphRejected,
                 pageSelectedNodeId, nodeRequests, nodeIssued, linkedResources,
                 nodeVariants, nodeRejected, graphViewMode, webglSupported,
                 webglDetected, viewCrashed, pageMessage>>

\* The responses of call r arrive: setGraph(graphData). Selection repair
\* then keeps the selection or moves it (sel2), and a moved selection runs
\* the node payload effect.
GraphResponse(r, sel2) ==
  /\ UNCHANGED notPageVars
  /\ ~viewCrashed
  /\ r \in graphRequests
  /\ graphRequests' = graphRequests \ {r}
  /\ shownGraph' = r
  /\ pageSelectedNodeId' = sel2
  /\ IF sel2 # pageSelectedNodeId
     THEN NodePayloadEffect(sel2)
     ELSE UNCHANGED <<nodeRequests, nodeIssued, linkedResources, nodeVariants>>
  /\ UNCHANGED <<pageWorkspaceId, graphParams, graphIssued, graphRejected,
                 nodeRejected, graphViewMode, webglSupported,
                 webglDetected, viewCrashed, pageMessage>>

\* A request of call r is rejected: the graph is left as it is, the caller
\* reports the error.
GraphFailure(r) ==
  /\ UNCHANGED notPageVars
  /\ ~viewCrashed
  /\ r \in graphRequests
  /\ graphRequests' = graphRequests \ {r}
  /\ graphRejected' = TRUE
  /\ pageMessage' = "error"
  /\ UNCHANGED <<pageWorkspaceId, graphParams, graphIssued, shownGraph,
                 pageSelectedNodeId, nodeRequests, nodeIssued, linkedResources,
                 nodeVariants, nodeRejected, graphViewMode, webglSupported,
                 webglDetected, viewCrashed>>

\* setSelectedNodeId(id) by a click, a search result or an answer.
SelectPageNode(id) ==
  /\ UNCHANGED notPageVars
  /\ ~viewCrashed
  /\ id # pageSelectedNodeId
  /\ pageWorkspaceId # 0
  /\ pageSelectedNodeId' = id
  /\ NodePayloadEffect(id)
  /\ UNCHANGED <<pageWorkspaceId, graphParams, graphRequests, graphIssued,
                 shownGraph, graphRejected, nodeRejected, graphViewMode,
                 webglSupported, webglDetected, viewCrashed,
                 pageMessage>>

\* getNodeLinkedResources of call r answers: setLinkedResources, then the
\* call goes on to getRagNodeVariants.
LinkedResponse(r) ==
  /\ UNCHANGED notPageVars
  /\ ~viewCrashed
  /\ r \in nodeRequests /\ r.stage = "linked"
  /\ linkedResources' = [seq |-> r.seq, node |-> r.node]
  /\ nodeRequests' = (nodeRequests \ {r}) \cup {[r EXCEPT !.stage = "variants"]}
  /\ UNCHANGED <<pageWorkspaceId, graphParams, graphRequests, graphIssued,
                 shownGraph, graphRejected, pageSelectedNodeId, nodeIssued,
                 nodeVariants, nodeRejected, graphViewMode, webglSupported,
                 webglDetected, viewCrashed, pageMessage>>

\* getRagNodeVariants of call r answers: setNodeVariants, setNodeVariantsMeta.
VariantsResponse(r) ==
  /\ UNCHANGED notPageVars
  /\ ~viewCrashed
  /\ r \in nodeRequests /\ r.stage = "variants"
  /\ nodeVariants' = [seq |-> r.seq, node |-> r.node]
  /\ nodeRequests' = nodeRequests \ {r}
  /\ UNCHANGED <<pageWorkspaceId, graphParams, graphRequests, graphIssued,
                 shownGraph, graphRejected, pageSelectedNodeId, nodeIssued,
                 linkedResources, nodeRejected, graphViewMode, webglSupported,
                 webglDetected, viewCrashed, pageMessage>>

\* Either request of call r is rejected: the catch branch clears the payloads.
NodeFailure(r) ==
  /\ UNCHANGED notPageVars
  /\ ~viewCrashed
  /\ r \in nodeRequests
  /\ nodeRequests' = nodeRequests \ {r}
  /\ linkedResources' = NoPayload
  /\ nodeVariants' = NoPayload
  /\ nodeRejected' = TRUE
  /\ UNCHANGED <<pageWorkspaceId, graphParams, graphRequests, graphIssued,
                 shownGraph, graphRejected, pageSelectedNodeId, nodeIssued,
                 graphViewMode, webglSupported, webglDetected,
                 viewCrashed, pageMessage>>

\* The WebGL detection effect (runs once after mount); hasWebgl is whether
\* the device hands out a WebGL context.
DetectWebgl(hasWebgl) ==
  /\ UNCHANGED notPageVars
  /\ ~viewCrashed
  /\ ~webglDetected
  /\ webglDetected' = TRUE
  /\ webglSupported' = hasWebgl
  /\ graphViewMode' = IF hasWebgl THEN graphViewMode ELSE "2d"
  /\ UNCHANGED <<pageWorkspaceId, graphParams, graphRequests, graphIssued,
                 shownGraph, graphRejected, pageSelectedNodeId, nodeRequests,
                 nodeIssued, linkedResources, nodeVariants, nodeRejected,
                 viewCrashed, pageMessage>>

\* The view mode select; its 3D option is disabled without WebGL.
ChooseViewMode(mode) ==
  /\ UNCHANGED notPageVars
  /\ ~viewCrashed
  /\ mode # graphViewMode
  /\ mode = "3d" => webglSupported
  /\ graphViewMode' = mode
  /\ UNCHANGED <<pageWorkspaceId, graphParams, graphRequests, graphIssued,
                 shownGraph, graphRejected, pageSelectedNodeId, nodeRequests,
                 nodeIssued, linkedResources, nodeVariants, nodeRejected,
                 webglSupported, webglDetected, viewCrashed,
                 pageMessage>>

\* RagGraph3DCanvas throws while it renders: GraphRenderBoundary shows its
\* fallback and componentDidCatch calls onCrash, which sets the mode to 2D
\* and reports it; the next render shows the 2D canvas.
Render3DThrows ==
  /\ UNCHANGED notPageVars
  /\ RenderedCanvas = "3d"
  /\ graphViewMode' = "2d"
  /\ pageMessage' = "3D failed, switched to 2D"
  /\ UNCHANGED <<pageWorkspaceId, graphParams, graphRequests, graphIssued,
                 shownGraph, graphRejected, pageSelectedNodeId, nodeRequests,
                 nodeIssued, linkedResources, nodeVariants, nodeRejected,
                 webglSupported, webglDetected, viewCrashed>>

\* RagGraph2DCanvas throws while it renders: it is rendered outside
\* GraphRenderBoundary, so the error is not caught in the page and React
\* unmounts the tree.
Render2DThrows ==
  /\ UNCHANGED notPageVars
  /\ RenderedCanvas = "2d"
  /\ viewCrashed' = TRUE
  /\ UNCHANGED <<pageWorkspaceId, graphParams, graphRequests, graphIssued,
                 shownGraph, graphRejected, pageSelectedNodeId, nodeRequests,
                 nodeIssued, linkedResources, nodeVariants, nodeRejected,
                 graphViewMode, webglSupported, webglDetected,
                 pageMessage>>

\* The page after construction: no workspace, no stored view mode, WebGL
\* not yet detected.
PageInit ==
  /\ pageWorkspaceId = 0
  /\ graphParams = 1
  /\ graphRequests = {}
  /\ graphIssued = 0
  /\ shownGraph = NoSnapshot
  /\ graphRejected = FALSE
  /\ pageSelectedNodeId = 0
  /\ nodeRequests = {}
  /\ nodeIssued = 0
  /\ linkedResources = NoPayload
  /\ nodeVariants = NoPayload
  /\ nodeRejected = FALSE
  /\ graphViewMode = "3d"
  /\ webglSupported = FALSE
  /\ webglDetected = FALSE
  /\ viewCrashed = FALSE
  /\ pageMessage = ""

PageNext ==
  \/ \E w \in Workspaces : SwitchWorkspace(w)
  \/ \E p \in GraphParamValues : ChangeGraphParams(p)
  \/ RefreshGraph
  \/ \E r \in graphRequests, sel2 \in PageNodes : GraphResponse(r, sel2)
  \/ \E r \in graphRequests : GraphFailure(r)
  \/ \E id \in NodeIds : SelectPageNode(id)
  \/ \E r \in nodeRequests : LinkedResponse(r)
  \/ \E r \in nodeRequests : VariantsResponse(r)
  \/ \E r \in nodeRequests : NodeFailure(r)
  \/ \E hasWebgl \in BOOLEAN : DetectWebgl(hasWebgl)
  \/ \E mode \in {"2d", "3d"} : ChooseViewMode(mode)
  \/ Render3DThrows
  \/ Render2DThrows

\* ---------------------------------------------------------------------
\* Specifications
\* ---------------------------------------------------------------------

vars == <<wizVars, pollVars, filterVars, labelVars, pageVars>>

Init == WizInit /\ PollInit /\ FilterInit /\ LabelInit /\ PageInit

SpecWizard == Init /\ [][WizNext]_vars

SpecPoller == Init /\ [][PollNext]_vars

SpecFilter == Init /\ [][FilterNext]_vars

SpecLabel == Init /\ [][LabelNext]_vars

SpecPage == Init /\ [][PageNext]_vars

\* ------------------------------------------------------------------------
\* Properties of the classification lanes
\* ------------------------------------------------------------------------
Lanes == {"global", "scoped"}

LaneValue(l) == IF l = "global" THEN autoResult ELSE scopedAutoResult

LaneSeq(l) == IF l = "global" THEN globalReqSeqRef ELSE scopedReqSeqRef

\* The step delivers the response to request r.
Delivers(r) == r \in inflight /\ inflight' = inflight \ {r}

\* C1: stale discard.  When a response arrived after the response to a newer
\* request of its lane, the lane's value is never the late response's data,
\* and if the newer request is the latest one issued in the lane, the lane's
\* value is that request's outcome (or empty after a reset of the lane).
StaleDiscard ==
  \A l \in Lanes :
    lateDone[l] # 0 =>
      /\ LaneValue(l).seq # lateDone[l]
      /\ newestDone[l].seq = LaneSeq(l) =>
           LaneValue(l) \in {newestDone[l].out, NullData}

\* Both lanes hold the data of their latest request although an older
\* response arrived last.
StaleDiscardWitness ==
  \A l \in Lanes :
    /\ lateDone[l] # 0
    /\ newestDone[l].seq = LaneSeq(l)
    /\ LaneValue(l) # NullData
    /\ LaneValue(l) = newestDone[l].out

\* C2: no cross-file carryover.  While a file is selected, whatever a lane or
\* lastGoodResult holds was computed for that file.
NoCrossFileCarryover ==
  uploadFile # 0 =>
    \A x \in {autoResult, scopedAutoResult, lastGoodResult} :
      x # NullData => x.file = uploadFile

\* C5 as claimed: a global completion leaves the scoped value and counter
\* unchanged, and a scoped completion leaves the global value and counter
\* unchanged.
LanesIndependent ==
  [][\A r \in inflight : Delivers(r) =>
       IF r.lane = "global"
       THEN scopedAutoResult' = scopedAutoResult /\ scopedReqSeqRef' = scopedReqSeqRef
       ELSE autoResult' = autoResult /\ globalReqSeqRef' = globalReqSeqRef]_vars

\* C5 amended: a scoped completion leaves the global value and counter
\* unchanged; a global completion leaves the scoped counter unchanged, leaves
\* the scoped value unchanged when it is stale and empties the scoped value
\* when it is authoritative.
LanesIndependentAmended ==
  [][\A r \in inflight : Delivers(r) =>
       IF r.lane = "global"
       THEN /\ scopedReqSeqRef' = scopedReqSeqRef
            /\ scopedAutoResult' =
                 IF r.seq = globalReqSeqRef THEN NullData ELSE scopedAutoResult
       ELSE autoResult' = autoResult /\ globalReqSeqRef' = globalReqSeqRef]_vars

\* The latest scoped request succeeded for the current file, yet the scoped
\* lane is empty next to a global value: the global completion emptied it.
LanesIndependentWitness ==
  /\ uploadFile # 0
  /\ autoResult # NullData
  /\ scopedAutoResult = NullData
  /\ newestDone["scoped"].seq = scopedReqSeqRef
  /\ newestDone["scoped"].out # NullData
  /\ newestDone["scoped"].out.file = uploadFile

FailMessages == {MsgGlobalFailFallback, MsgGlobalFailHard,
                 MsgScopedFailFallback, MsgScopedFailHard}

\* C8: the message of a failed authoritative request says "showing last good
\* result" exactly when a lastGoodResult exists at that moment, and is a hard
\* error otherwise.
FailureMessageMirrorsFallback ==
  [][(classifyError' # classifyError /\ classifyError' \in FailMessages) =>
       IF lastGoodResult # NullData
       THEN classifyError' \in FallbackMessages
       ELSE classifyError' \in HardMessages]_vars

\* C9: a scoped request is issued only with a file and a volume chosen, and a
\* scoped response is stored only if it answers a request for the file and the
\* volume that are current when it arrives.
ScopedTriggering ==
  [][/\ \A r \in inflight' \ inflight :
          r.lane = "scoped" =>
            /\ uploadFile' # 0 /\ form'.volume_code # ""
            /\ r.file = uploadFile' /\ r.vol = form'.volume_code
     /\ (scopedAutoResult' # scopedAutoResult /\ scopedAutoResult' # NullData) =>
          /\ scopedAutoResult'.file = uploadFile
          /\ scopedAutoResult'.vol = form.volume_code]_vars

\* C10: the response to a request whose token differs from its lane's counter
\* changes no state of the wizard.
StaleResponseNoEffect ==
  [][\A r \in inflight : (Delivers(r) /\ r.seq # LaneSeq(r.lane)) =>
       UNCHANGED <<step, uploadFile, form, autoResult, scopedAutoResult,
                   lastGoodResult, lastGoodResultRef, displaySource,
                   classifyError, isClassifying, isScopedClassifying,
                   autoFilledChapter, globalReqSeqRef, scopedReqSeqRef>>]_vars

\* A stale response has arrived in each lane while an error message and a
\* loading flag were displayed.
StaleResponseNoEffectWitness ==
  /\ lateDone["global"] # 0
  /\ lateDone["scoped"] # 0
  /\ classifyError # ""
  /\ form.chapter_id # ""

\* The step delivers the response to request r, whose token equals its
\* lane's counter, and the outcome of the request is of kind k.
DeliversAuthoritative(r, k) ==
  /\ Delivers(r)
  /\ r.seq = LaneSeq(r.lane)
  /\ newestDone'[r.lane].seq = r.seq
  /\ newestDone'[r.lane].kind = k

\* C11: when a request succeeds with a result and its token equals its
\* lane's counter, the result becomes the lane's current value and
\* lastGoodResult.
AuthoritativeSuccessStored ==
  [][\A r \in inflight : DeliversAuthoritative(r, "ok") =>
       /\ newestDone'[r.lane].out # NullData
       /\ LaneValue(r.lane)' = newestDone'[r.lane].out
       /\ lastGoodResult' = newestDone'[r.lane].out]_vars

\* C11 happens: the latest scoped request succeeded and its result is the
\* scoped lane's value and lastGoodResult, next to the result of the latest
\* global request in the global lane.
AuthoritativeSuccessStoredWitness ==
  /\ newestDone["scoped"].kind = "ok"
  /\ newestDone["scoped"].seq = scopedReqSeqRef
  /\ scopedAutoResult = newestDone["scoped"].out
  /\ lastGoodResult = scopedAutoResult
  /\ newestDone["global"].kind = "ok"
  /\ newestDone["global"].seq = globalReqSeqRef
  /\ autoResult = newestDone["global"].out
  /\ autoResult # lastGoodResult

\* C12: when a request fails and its token equals its lane's counter, the
\* lane's current value is cleared and lastGoodResult keeps its value.
AuthoritativeFailureKeepsLastGood ==
  [][\A r \in inflight : DeliversAuthoritative(r, "fail") =>
       /\ LaneValue(r.lane)' = NullData
       /\ lastGoodResult' = lastGoodResult]_vars

\* C12 happens: the latest request of each lane failed, both lanes are empty
\* and lastGoodResult still holds an earlier result.
AuthoritativeFailureKeepsLastGoodWitness ==
  /\ newestDone["global"].kind = "fail"
  /\ newestDone["global"].seq = globalReqSeqRef
  /\ newestDone["scoped"].kind = "fail"
  /\ newestDone["scoped"].seq = scopedReqSeqRef
  /\ autoResult = NullData
  /\ scopedAutoResult = NullData
  /\ lastGoodResult # NullData

\* C13: fallback chain.  The displayed result is the scoped lane's value if
\* it is not empty, else the global lane's value if it is not empty, else
\* lastGoodResult, else no result.
FallbackChain ==
  /\ scopedAutoResult # NullData => displayAutoResult = scopedAutoResult
  /\ (scopedAutoResult = NullData /\ autoResult # NullData) =>
       displayAutoResult = autoResult
  /\ (scopedAutoResult = NullData /\ autoResult = NullData) =>
       displayAutoResult = lastGoodResult

\* C13 happens: both lanes are empty, lastGoodResult holds a result and it is
\* the one displayed.
FallbackChainWitness ==
  /\ scopedAutoResult = NullData
  /\ autoResult = NullData
  /\ lastGoodResult # NullData
  /\ displayAutoResult = lastGoodResult

\* C28: the step in which a classification response arrives (either lane)
\* leaves a chosen volume, chapter and section of the form as they are; a
\* recommended chapter is only written into an empty chapter field.
ResponseKeepsSelection ==
  [][(inflight' \subseteq inflight /\ inflight' # inflight) =>
       /\ form.volume_code # "" => form'.volume_code = form.volume_code
       /\ form.chapter_id # "" => form'.chapter_id = form.chapter_id
       /\ form.section_id # "" => form'.section_id = form.section_id]_vars

\* ------------------------------------------------------------------------
\* Properties of the job poller
\* ------------------------------------------------------------------------
\* The step delivers the response (or the failure) of poll p.
DeliversPoll(p) == p \in polls /\ polls' = polls \ {p}

\* C3: a poll response that arrives after its poller was cancelled (the
\* timer of another job is the current one, or the page is torn down) is
\* discarded: the displayed job, the timer of the current job, the graph
\* refreshes and the messages stay as they were.
CancelledPollDiscarded ==
  [][\A p \in polls :
       (/\ DeliversPoll(p)
        /\ bootstrapPollerRef # p.job
        /\ (bootstrapPollerRef # 0 \/ ~mounted)) =>
       UNCHANGED <<bootstrapJob, bootstrapPollerRef, graphLoads, globalMessage>>]_vars

\* C4: once the k-th poll of a job has returned its first terminal status,
\* exactly k polls have been issued for the job and none is scheduled.
PollerTermination ==
  \A j \in Jobs :
    firstTerminalPoll[j] # 0 =>
      pollCount[j] = firstTerminalPoll[j] /\ bootstrapPollerRef # j

\* C14: single poller.  At most one interval timer is live and it is the
\* timer of the job startBootstrapPolling was last called for; a call of
\* startBootstrapPolling for another job leaves the timer of that job as the
\* only live one.
SinglePoller ==
  /\ [](Cardinality(timers) <= 1 /\ timers \subseteq {lastStarted})
  /\ [][lastStarted' # lastStarted => timers' = {lastStarted'}]_vars

\* C14 happens: the poller of job 2 was started on a mounted page while the
\* timer of job 1 was live (no poll of job 1 had been answered yet), and the
\* timer of job 2 is the only live one.
SinglePollerWitness ==
  /\ mounted
  /\ lastStarted = 2
  /\ timers = {2}
  /\ pollCount[1] >= 1
  /\ Cardinality({p \in polls : p.job = 1}) = pollCount[1]

\* C15: once the page is unmounted no poll request is issued and no interval
\* timer is set, whatever arrives afterwards.
NoPollAfterTeardown ==
  [][~mounted => (pollCount' = pollCount /\ timers' = {})]_vars

\* C21: a rejected poll request stops the poller and reports an error, and
\* is not retried: the step leaves no live timer, issues no poll and hands
\* the error message to setGlobalMessage; a job one of whose polls was
\* rejected is never polled again.
PollFailureStops ==
  /\ [][lastEvent'.kind = "fail" =>
          /\ timers' = {}
          /\ pollCount' = pollCount
          /\ polls' \subseteq polls
          /\ globalMessage' = "error"]_vars
  /\ [][\A j \in pollFailures : pollCount'[j] = pollCount[j]]_vars

\* C21 happens: on the mounted page the poller of the job started last ran
\* until one of its polls was rejected; no timer is live and the error is
\* reported.
PollFailureStopsWitness ==
  /\ mounted
  /\ lastEvent = Event("fail", lastStarted)
  /\ pollFailures = {lastStarted}
  /\ \A j \in Jobs : terminalCount[j] = 0
  /\ timers = {}
  /\ globalMessage = "error"

NoPollForTerminalSubmission ==
  /\ [][lastEvent'.kind = "nopoll" =>
          /\ timers' = {}
          /\ pollCount' = pollCount
          /\ polls' = polls]_vars
  /\ [][\A j \in Jobs :
          (pollCount[j] = 0 /\ pollCount'[j] > 0) =>
            /\ lastEvent' = Event("start", j)
            /\ serverStatus'[j] \in {"queued", "processing"}]_vars
  /\ [][\A j \in 1 .. jobsSubmitted :
          (pollCount[j] = 0 /\ j \notin {sub.id : sub \in submits}) =>
            pollCount'[j] = 0]_vars

\* C23 happens: on the mounted page the poller of job 1 was live (none of
\* its polls had been answered) when the submission of job 2 was answered
\* with a terminal status; no timer is live and job 2 has no poll.
NoPollForTerminalSubmissionWitness ==
  /\ mounted
  /\ lastEvent = Event("nopoll", 2)
  /\ serverStatus[2] \in TerminalStatuses
  /\ pollCount[2] = 0
  /\ pollCount[1] >= 1
  /\ Cardinality({p \in polls : p.job = 1}) = pollCount[1]
  /\ timers = {}

\* C26: the live timer of a job is not cleared by an event of another job
\* (the answer or the rejection of one of its polls, its refresh).
OtherJobCannotStop ==
  [][\A j \in timers :
       (/\ lastEvent'.kind \in {"continue", "terminal", "fail", "loaded", "loadfail"}
        /\ lastEvent'.job # j) => j \in timers']_vars

\* C27: the terminal branch runs at most once for a job.
TerminalHandledOnce ==
  \A j \in Jobs : terminalCount[j] <= 1

\* ---------------------------------------------------------------------
\* Properties of the visible graph
\* ---------------------------------------------------------------------

\* C6: no dangling edges.  For every snapshot and every filter state each
\* edge of the visible graph has its source and its target among the
\* visible nodes; when no node is retained the visible edge set is empty.
NoDanglingEdges ==
  LET fg == filteredGraph IN
    /\ \A e \in fg.edges : e.source \in VisibleIds(fg) /\ e.target \in VisibleIds(fg)
    /\ Len(fg.nodes) = 0 => fg.edges = {}

\* C6 happens: the snapshot holds an edge of an enabled type between two of
\* its nodes, the source is visible, the target has been filtered out and
\* the edge is not in the visible graph.
NoDanglingEdgesWitness ==
  \E e \in graph.edges :
    /\ e.edge_type # "" /\ FlagOf(edgeTypeFilter, e.edge_type)
    /\ e.source \in VisibleIds(filteredGraph)
    /\ e.target \in {n.id : n \in NodesOf(graph)}
    /\ e.target \notin VisibleIds(filteredGraph)
    /\ e \notin filteredGraph.edges

\* The filter map f, and f with all of its entries left out.
WithOrWithout(f) == {f, EmptyFilter}

\* The node rule of C17 for node n under the maps nf, df, ff.
NodeVisibleRule(n, nf, df, ff) ==
  /\ FlagOf(nf, n.node_type)
  /\ n.node_type = "resource" =>
       /\ FlagOf(df, OrDefault(n.difficulty, DefaultDifficulty))
       /\ FlagOf(ff, OrDefault(n.format_group, DefaultFormatGroup))
  /\ n.node_type = "format" =>
       FlagOf(ff, OrDefault(n.format_group, DefaultFormatGroup))

\* The snapshot of the example of C17: resources 1 .. 5, chapters 6 .. 8,
\* every resource joined to a chapter by a contains edge.
ExampleGraph ==
  [nodes |-> [i \in 1 .. 8 |->
                IF i <= 5
                THEN [id |-> i, node_type |-> "resource", difficulty |-> "basic",
                      format_group |-> "ppt"]
                ELSE [id |-> i, node_type |-> "chapter", difficulty |-> "",
                      format_group |-> ""]],
   edges |-> {[source |-> 6 + (i % 3), target |-> i, edge_type |-> "contains"] :
                i \in 1 .. 5}]

\* The visible graph of the example: only the node type resource is on.
ExampleVisible ==
  FilteredGraphOf(ExampleGraph, [t \in {"resource", "chapter"} |-> t = "resource"],
                  EmptyFilter, EmptyFilter, EmptyFilter)

\* C17: visible-graph rule.  For the current snapshot and every filter state
\* made of the current maps, each as it is or without its entries: the visible
\* nodes are the nodes whose node-type flag is on and, for a resource, whose
\* difficulty and format-group flags are on and, for a format node, whose
\* format-group flag is on, in snapshot order; the visible edges are the
\* edges with both endpoints visible and the edge-type flag on; a missing
\* entry counts as on.  Example: resource on and chapter off, 5 resources
\* and 3 chapters joined by contains edges, gives 5 nodes and 0 edges.
VisibleGraphRule ==
  /\ \A nf \in WithOrWithout(nodeTypeFilter), ef \in WithOrWithout(edgeTypeFilter),
        df \in WithOrWithout(difficultyFilter), ff \in WithOrWithout(formatFilter) :
        LET fg == FilteredGraphOf(graph, nf, ef, df, ff)
            Vis(n) == NodeVisibleRule(n, nf, df, ff)
            ids == {n.id : n \in {m \in NodesOf(graph) : Vis(m)}}
        IN /\ fg.nodes = SelectSeq(graph.nodes, Vis)
           /\ fg.edges = {e \in graph.edges :
                            /\ e.source \in ids
                            /\ e.target \in ids
                            /\ FlagOf(ef, e.edge_type)}
  /\ Len(ExampleVisible.nodes) = 5
  /\ ExampleVisible.edges = {}

\* C17 happens: the snapshot is a resource and a chapter joined by a contains
\* edge, only the chapter type is switched off, and the visible graph is the
\* resource alone without the edge.
VisibleGraphRuleWitness ==
  /\ Len(graph.nodes) = 2
  /\ graph.nodes[1].node_type = "resource"
  /\ graph.nodes[2].node_type = "chapter"
  /\ graph.edges = {[source |-> 1, target |-> 2, edge_type |-> "contains"]}
  /\ nodeTypeFilter = [t \in {"resource", "chapter"} |-> t = "resource"]
  /\ \A k \in DOMAIN difficultyFilter : difficultyFilter[k]
  /\ \A k \in DOMAIN formatFilter : formatFilter[k]
  /\ edgeTypeFilter = [t \in {"contains"} |-> TRUE]
  /\ VisibleIds(filteredGraph) = {1}
  /\ filteredGraph.edges = {}

\* The map after is the merge of the map before over its own keys: an
\* entry of before keeps its flag, any other entry is on.
MergedFrom(before, after) ==
  \A k \in DOMAIN after : after[k] = (IF k \in DOMAIN before THEN before[k] ELSE TRUE)

\* C18: filter merge.  The keys of each of the four filter maps are the
\* values of its dimension in the current snapshot; a step that replaces the
\* snapshot keeps the flag of every value still present and inserts every
\* new value switched on; an edge type that was dropped while switched off
\* and has come back is switched on.
FilterMergeRule ==
  /\ [](/\ DOMAIN nodeTypeFilter = allNodeTypes
        /\ DOMAIN edgeTypeFilter = allEdgeTypes
        /\ DOMAIN difficultyFilter = allDifficulties
        /\ DOMAIN formatFilter = allFormatGroups)
  /\ [][graph' # graph =>
          /\ MergedFrom(nodeTypeFilter, nodeTypeFilter')
          /\ MergedFrom(edgeTypeFilter, edgeTypeFilter')
          /\ MergedFrom(difficultyFilter, difficultyFilter')
          /\ MergedFrom(formatFilter, formatFilter')]_vars
  /\ [](mergeHistory.phase = "reinserted" =>
          /\ mergeHistory.key \in DOMAIN edgeTypeFilter
          /\ edgeTypeFilter[mergeHistory.key])

\* C18 happens: an edge type was switched off, a new snapshot without it
\* dropped its entry, the next snapshot brought it back and its entry is on;
\* a node type that is switched off has kept its flag through both merges.
FilterMergeRuleWitness ==
  /\ mergeHistory.phase = "reinserted"
  /\ mergeHistory.key \in allEdgeTypes
  /\ edgeTypeFilter[mergeHistory.key]
  /\ \E t \in DOMAIN nodeTypeFilter : ~nodeTypeFilter[t]

\* C29: once the effects of a step have run, the selected id is the id of
\* a visible node when the visible graph has nodes, and empty when it has
\* none.
SelectionVisible ==
  IF VisibleIds(filteredGraph) # {}
  THEN selectedNodeId \in VisibleIds(filteredGraph)
  ELSE selectedNodeId = 0

\* C29 happens: the first node of the snapshot is filtered out, another node
\* is visible, and the selection is the first visible node.
SelectionVisibleWitness ==
  /\ Len(graph.nodes) >= 2
  /\ graph.nodes[1].id \notin VisibleIds(filteredGraph)
  /\ Len(filteredGraph.nodes) >= 1
  /\ selectedNodeId = filteredGraph.nodes[1].id

\* ---------------------------------------------------------------------
\* Properties of the label scheduler
\* ---------------------------------------------------------------------

BudgetFrameScoped ==
  [][(/\ frame.next # 0
      /\ frame'.next # frame.next
      /\ ~PinnedLabel(frame.next)
      /\ shouldShowLabel(frame.next, frame.globalScale)
      /\ Len(shortenLabel(nodeDisplayName(frame.next))) > 0
      /\ drawn' = drawn)
     => Cardinality({d \in drawn : ~d.pinned}) >= labelCapForScale(frame.globalScale)]_vars

\* Zoom values on both sides of each threshold.
TierZooms == {1599, 1600, 2399, 2400, 2999, 3000}

\* The node types of the tier of zoom z below the third threshold.
TierTypes(z) ==
  IF z < MAP_LABEL_ZOOM_RESOURCE THEN {}
  ELSE IF z < MAP_LABEL_ZOOM_CONTEXT THEN {"resource"}
  ELSE {"resource", "chapter", "section"}

\* C19: zoom tiers.  For the non-pinned node of the call in progress and
\* every zoom value: below 1.6 it is not eligible, from 1.6 up to 2.4 it is
\* eligible iff it is a resource, from 2.4 up to 3.0 iff it is a resource,
\* chapter or section, and a node eligible at one zoom is eligible at every
\* higher zoom; the non-pinned labels drawn in a pass below 3.0 are labels
\* of nodes of the tier of the pass.
ZoomTiers ==
  /\ (frame.next # 0 /\ ~PinnedLabel(frame.next)) =>
       \A z \in TierZooms \cup {frame.globalScale} :
         /\ z < MAP_LABEL_ZOOM_IMPORTANT =>
              (shouldShowLabel(frame.next, z) <=> NodeTypeOf(frame.next) \in TierTypes(z))
         /\ \A higher \in {y \in TierZooms : y > z} :
              shouldShowLabel(frame.next, z) => shouldShowLabel(frame.next, higher)
  /\ frame.globalScale < MAP_LABEL_ZOOM_IMPORTANT =>
       \A d \in drawn : ~d.pinned => NodeTypeOf(d.id) \in TierTypes(frame.globalScale)

\* C19 happens: a pass in the context tier is over and drew the labels of
\* non-pinned resources and chapters, and no label of a non-pinned node of
\* another type although the graph holds such nodes.
ZoomTiersWitness ==
  /\ frame.next = 0
  /\ frame.globalScale = MAP_LABEL_ZOOM_CONTEXT
  /\ canvasProps.graph = NumNodes
  /\ \E d \in drawn : ~d.pinned /\ NodeTypeOf(d.id) = "chapter"
  /\ \E d \in drawn : ~d.pinned /\ NodeTypeOf(d.id) = "resource"
  /\ \A d \in drawn : ~d.pinned => NodeTypeOf(d.id) \in {"resource", "chapter", "section"}

\* The size at rank r (1 = largest) of nodes 1 .. n at node scale `scale`.
SizeAtRank(r, n, scale) ==
  CHOOSE v \in {SizeOf(i, scale) : i \in 1 .. n} :
    /\ Cardinality({i \in 1 .. n : SizeOf(i, scale) > v}) < r
    /\ Cardinality({i \in 1 .. n : SizeOf(i, scale) >= v}) >= r

\* The boundary of C20: the size at rank max(1, floor(0.3 * n)).
FractileBoundary(n, scale) ==
  LET r == IF (3 * n) \div 10 > 1 THEN (3 * n) \div 10 ELSE 1
  IN SizeAtRank(r, n, scale)

\* The boundary for the graphs and node scales of the canvas.
FractileBoundaries ==
  [n \in GraphSizes \ {0}, scale \in MIN_NODE_SCALE .. MAX_NODE_SCALE |->
     FractileBoundary(n, scale)]

\* The memo gives the boundary of C20 for every graph of 1 to 12 nodes.
SmallGraphsAgree ==
  \A n \in 1 .. 12, scale \in {MIN_NODE_SCALE, 10, MAX_NODE_SCALE} :
    ImportantSizeThresholdOf(n, scale) = FractileBoundary(n, scale)

\* C20: importance fractile.  The threshold the canvas holds is the size at
\* rank max(1, floor(0.3 * n)) of the n nodes of the current graph at the
\* current node scale, and is above every size when n = 0; at or above zoom
\* 3.0 the non-pinned node of the call in progress, when it is not a
\* resource, chapter or section, is eligible iff its size at the current
\* node scale reaches that boundary.
ImportantFractile ==
  /\ SmallGraphsAgree
  /\ IF canvasProps.graph = 0
     THEN \A i \in 1 .. NumNodes : SizeOf(i, nodeScale) < importantSizeThreshold
     ELSE importantSizeThreshold = FractileBoundaries[canvasProps.graph, nodeScale]
  /\ (/\ frame.next # 0
      /\ ~PinnedLabel(frame.next)
      /\ NodeTypeOf(frame.next) \notin {"resource", "chapter", "section"}) =>
       \A z \in {MAP_LABEL_ZOOM_IMPORTANT, frame.globalScale} :
         z >= MAP_LABEL_ZOOM_IMPORTANT =>
           (shouldShowLabel(frame.next, z) <=>
              SizeOf(frame.next, nodeScale) >=
                FractileBoundaries[canvasProps.graph, nodeScale])

\* C20 happens: the node scale was changed with a graph on the canvas, and a
\* pass at zoom 3.0 is over that drew the label of a non-pinned knowledge
\* point (at the boundary) and left out a non-pinned format node with a label
\* text (below it).
ImportantFractileWitness ==
  /\ frame.next = 0
  /\ frame.globalScale = MAP_LABEL_ZOOM_IMPORTANT
  /\ canvasProps.graph = NumNodes
  /\ nodeScale = MAX_NODE_SCALE
  /\ \E d \in drawn : ~d.pinned /\ NodeTypeOf(d.id) = "knowledge_point"
  /\ ~PinnedLabel(20)
  /\ NodeTypeOf(20) = "format"
  /\ Len(shortenLabel(nodeDisplayName(20))) > 0
  /\ \A d \in drawn : d.id # 20

\* ---------------------------------------------------------------------
\* Properties of graph fetches, node details and the rendering mode
\* ---------------------------------------------------------------------

\* C24: an exception raised while the graph is drawn never takes the view
\* down.
RenderFaultContained == ~viewCrashed

\* C25: once every graph fetch has completed (none rejected), the graph
\* shown is the response to the call issued last and belongs to the active
\* workspace.
LatestGraphShown ==
  (graphRequests = {} /\ graphIssued > 0 /\ ~graphRejected) =>
    /\ shownGraph.seq = graphIssued
    /\ shownGraph.workspace = pageWorkspaceId

\* C30: with a node selected, once every node request has completed (none
\* rejected), the linked resources and the variants shown are those
\* fetched for the selected node.
NodePayloadOfSelection ==
  (pageSelectedNodeId # 0 /\ nodeRequests = {} /\ ~nodeRejected) =>
    /\ linkedResources.node = pageSelectedNodeId
    /\ nodeVariants.node = pageSelectedNodeId

====
